---------------------------- MODULE Spec2Model ----------------------------
(***************************************************************************)
(* A model of the rubble AWS toolkit: the S3 bucket-policy patcher, the    *)
(* CloudFormation stack deployer, the index.html text patcher and the      *)
(* spot-price cost reporter.  Each component is a state machine of its own *)
(* (SpecPolicy, SpecDeploy, SpecHtml, SpecReport); the variables of the    *)
(* other components stay at their initial value.                           *)
(***************************************************************************)
EXTENDS Integers, Sequences, FiniteSets, TLC

VARIABLES
    policy,         \* the bucket policy stored in S3 (what get_bucket_policy reads)
    polHist,        \* history of the attach_bucket_policy calls on the bucket
    lastAttach,     \* the last attach_bucket_policy call: arguments, calls made, result
    dep,            \* the deploy_cloudformation_template call in progress
    usp,            \* the update_stack_parameters call in progress
    site,           \* the website source on disk: directories, index.html files, config
    web,            \* the last call of a function of update_website.py
    upl,            \* the upload_static_website call in progress
    urls,           \* the update_website_streaming_urls call in progress
    cli,            \* the run of main of aws_resource_manager.py in progress
    rep,            \* the report run of main: instances collected, report
    det             \* the last get_instance_details call

policyVars == <<policy, polHist, lastAttach>>
deployVars == <<dep, usp>>
webVars == <<site, web, upl, urls, cli>>
reportVars == <<rep, det>>

vars == <<policy, polHist, lastAttach, dep, usp, site, web, upl, urls, cli, rep, det>>

(***************************************************************************)
(* Generic helpers                                                         *)
(***************************************************************************)
Range(s) == {s[i] : i \in 1..Len(s)}

\* Python's `sub in s` on strings: s holds sub as a contiguous piece.
IsInfix(sub, s) ==
    \E i \in 0..(Len(s) - Len(sub)) :
        \A j \in 1..Len(sub) : s[i + j] = sub[j]

(***************************************************************************)
(* Bucket Policy Patcher: attach_bucket_policy                             *)
(***************************************************************************)
\* Distribution ARNs are 1..MaxArns; 0 stands for None / the empty string.
MaxArns == 3
Arns == 1..MaxArns
NoArn == 0

\* The value found under Condition.<operator>."AWS:SourceArn".
Absent == [t |-> "absent", s |-> NoArn, l |-> <<>>]
StrVal(a) == [t |-> "str", s |-> a, l |-> <<>>]
ListVal(q) == [t |-> "list", s |-> NoArn, l |-> q]

\* One policy statement.  cf: Principal.Service, Action and Resource are the
\* CloudFront ones for this bucket; cond: the statement has a Condition;
\* eq / like: Condition.StringEquals / StringLike "AWS:SourceArn".
Statement(sid, cf, cond, eq, like) ==
    [Sid |-> sid, cf |-> cf, cond |-> cond, eq |-> eq, like |-> like]

NoPolicy == [exists |-> FALSE, Statement |-> <<>>]
Policy(stmts) == [exists |-> TRUE, Statement |-> stmts]

\* The statement both templates of the code build for a distribution ARN.
NewStatement(arn) ==
    Statement("AllowCloudFrontServicePrincipal", TRUE, TRUE, StrVal(arn), Absent)

\* The fresh single-statement policy.
BucketPolicyTemplate(arn) == Policy(<<NewStatement(arn)>>)

IsCloudFrontStatement(st) == st.cf

\* The two "already in the condition" tests of the scan.
CoveredByStringEquals(st, arn) == st.cond /\ st.eq.t = "str" /\ st.eq.s = arn
CoveredByStringLike(st, arn) ==
    st.cond /\ st.like.t = "list" /\ arn \in Range(st.like.l)

\* The for-loop over the statements, from statement i on, idx being the value
\* of cloudfront_statement_index so far.  Result: the two loop variables.
RECURSIVE ScanStatements(_, _, _, _)
ScanStatements(stmts, arn, i, idx) ==
    IF i > Len(stmts)
    THEN [already |-> FALSE, index |-> idx]
    ELSE IF IsCloudFrontStatement(stmts[i])
         THEN IF CoveredByStringEquals(stmts[i], arn)
                 \/ CoveredByStringLike(stmts[i], arn)
              THEN [already |-> TRUE, index |-> i]
              ELSE ScanStatements(stmts, arn, i + 1, i)
         ELSE ScanStatements(stmts, arn, i + 1, idx)

\* current_arns as collected from the statement, before the new ARN is added.
\* A reading of the condition that forgets the ARN held under StringEquals.
CurrentArnsWithoutStringEquals(st) ==
    IF st.cond /\ st.like.t = "list" THEN st.like.l ELSE <<>>

CurrentArns(st) ==
    IF st.cond /\ st.eq.t # "absent"
    THEN <<st.eq.s>>
    ELSE IF st.cond /\ st.like.t # "absent"
         THEN IF st.like.t = "list" THEN st.like.l ELSE <<st.like.s>>
         ELSE <<>>

AppendIfMissing(q, arn) == IF arn \in Range(q) THEN q ELSE Append(q, arn)

\* The matched statement after the StringEquals -> StringLike upgrade.
UpgradeStatement(st, arn) ==
    [st EXCEPT !.cond = TRUE,
               !.eq = IF st.cond /\ st.eq.t # "absent" THEN Absent ELSE st.eq,
               !.like = ListVal(AppendIfMissing(CurrentArns(st), arn))]

\* The branch taken when a policy was read: whether put_bucket_policy is
\* called, and with which document.
UpdateExistingPolicy(existing, arn) ==
    LET scan == ScanStatements(existing.Statement, arn, 1, 0)
    IN  IF scan.already
        THEN [put |-> FALSE, doc |-> existing]
        ELSE IF scan.index >= 1
             THEN [put |-> TRUE,
                   doc |-> Policy([existing.Statement EXCEPT
                              ![scan.index] = UpgradeStatement(@, arn)])]
             ELSE [put |-> TRUE,
                   doc |-> Policy(Append(existing.Statement, NewStatement(arn)))]


\* Names are sequences of pieces, so that Python's substring test on them
\* (bucket_name in origin DomainName) is computed, not assumed.
BucketName == <<"site">>
OriginDomain(bucket) == bucket \o <<".s3.amazonaws.com">>
Distribution(arn, origins) == [ARN |-> arn, Origins |-> origins]

HasMatchingOrigin(d, bucket) ==
    \E k \in 1..Len(d.Origins) : IsInfix(bucket, d.Origins[k])

\* The scan of list_distributions' Items: the ARN of the first distribution one
\* of whose origins matches, else None.
RECURSIVE FindDistributionArn(_, _, _)
FindDistributionArn(dists, bucket, i) ==
    IF i > Len(dists)
    THEN NoArn
    ELSE IF HasMatchingOrigin(dists[i], bucket)
         THEN dists[i].ARN
         ELSE FindDistributionArn(dists, bucket, i + 1)

\* One call of attach_bucket_policy on a bucket whose stored policy is pol.
\* listOk, getOk, putOk: whether list_distributions, get_bucket_policy and
\* put_bucket_policy answer or raise (get_bucket_policy raising
\* NoSuchBucketPolicy for a bucket without policy counts as an answer).
AttachResult(pol, dists, arnArg, listOk, getOk, putOk) ==
    LET lookup == arnArg = NoArn
        arn == IF ~lookup THEN arnArg
               ELSE IF listOk THEN FindDistributionArn(dists, BucketName, 1)
               ELSE NoArn
        existing == IF getOk THEN pol ELSE NoPolicy
        plan == IF existing.exists
                THEN UpdateExistingPolicy(existing, arn)
                ELSE [put |-> TRUE, doc |-> BucketPolicyTemplate(arn)]
    IN  IF arn = NoArn
        THEN [ret |-> FALSE, arn |-> arn, listCalled |-> lookup,
              getCalled |-> FALSE, putCalled |-> FALSE, written |-> NoPolicy]
        ELSE [ret |-> ~plan.put \/ putOk, arn |-> arn, listCalled |-> lookup,
              getCalled |-> TRUE, putCalled |-> plan.put,
              written |-> IF plan.put THEN plan.doc ELSE NoPolicy]

OtherStatement == Statement("PublicReadLogs", FALSE, FALSE, Absent, Absent)
CfStatement(cond, eq, like) ==
    Statement("AllowCloudFrontServicePrincipal", TRUE, cond, eq, like)

\* The policies a bucket may hold before the tool first touches it.
InitialPolicies ==
    { NoPolicy,
      Policy(<<OtherStatement>>),
      Policy(<<OtherStatement, CfStatement(TRUE, StrVal(1), Absent)>>),
      Policy(<<CfStatement(TRUE, Absent, ListVal(<<1, 2>>)), OtherStatement>>),
      Policy(<<CfStatement(TRUE, Absent, StrVal(1))>>),
      Policy(<<CfStatement(TRUE, StrVal(1), ListVal(<<2>>))>>),
      Policy(<<CfStatement(TRUE, StrVal(1), Absent),
               CfStatement(TRUE, StrVal(2), Absent)>>),
      Policy(<<CfStatement(FALSE, Absent, Absent)>>) }

\* What list_distributions may return.
DistributionLists ==
    { <<>>,
      <<Distribution(1, <<OriginDomain(<<"site">>)>>)>>,
      <<Distribution(2, <<OriginDomain(<<"site", "-logs">>)>>),
        Distribution(1, <<OriginDomain(<<"site">>)>>)>>,
      <<Distribution(3, <<OriginDomain(<<"other">>)>>)>> }

NoCall ==
    [called |-> FALSE, arnArg |-> NoArn, arn |-> NoArn, ret |-> FALSE,
     listCalled |-> FALSE, getCalled |-> FALSE, getOk |-> FALSE,
     putCalled |-> FALSE, putOk |-> FALSE, dists |-> <<>>]

InitBucket ==
    /\ policy \in InitialPolicies
    /\ polHist = [fresh |-> ~policy.exists, okArns |-> {}]
    /\ lastAttach = NoCall

\* polHist.fresh: the bucket started without a policy and every
\* get_bucket_policy so far has answered with what the bucket holds;
\* polHist.okArns: while fresh, the ARNs of the calls that returned True.
AttachBucketPolicy(arnArg, dists, listOk, getOk, putOk) ==
    LET r == AttachResult(policy, dists, arnArg, listOk, getOk, putOk)
        fresh == polHist.fresh /\ (r.getCalled => getOk)
    IN  /\ policy' = IF r.putCalled /\ putOk THEN r.written ELSE policy
        /\ polHist' = [fresh |-> fresh,
                       okArns |-> IF ~fresh THEN {}
                                  ELSE IF r.ret THEN polHist.okArns \cup {r.arn}
                                  ELSE polHist.okArns]
        /\ lastAttach' =
               [called |-> TRUE, arnArg |-> arnArg, arn |-> r.arn, ret |-> r.ret,
                listCalled |-> r.listCalled, getCalled |-> r.getCalled,
                getOk |-> r.getCalled /\ getOk,
                putCalled |-> r.putCalled, putOk |-> r.putCalled /\ putOk,
                dists |-> IF r.listCalled /\ listOk THEN dists ELSE <<>>]
        /\ UNCHANGED <<deployVars, webVars, reportVars>>

NextBucket ==
    \E arnArg \in Arns \cup {NoArn}, getOk \in BOOLEAN, putOk \in BOOLEAN :
        \E listOk \in (IF arnArg = NoArn THEN BOOLEAN ELSE {TRUE}),
           dists \in (IF arnArg = NoArn THEN DistributionLists ELSE {<<>>}) :
            AttachBucketPolicy(arnArg, dists, listOk, getOk, putOk)

(***************************************************************************)
(* Stack Deployer: deploy_cloudformation_template                          *)
(* (deploy_function.py, and the older copy in aws_infra_report.py)         *)
(***************************************************************************)
Region == "us-west-2"

Param(k, v) == [ParameterKey |-> k, ParameterValue |-> v]

\* A section of the YAML config: absent, null (a key without a value) or a
\* mapping; keys are the keys present, entries the solution's parameters in
\* file order.
Section(kind, keys, entries) == [kind |-> kind, keys |-> keys, entries |-> entries]
SectionAbsent == Section("absent", {}, <<>>)
SectionNull == Section("null", {}, <<>>)
SectionMap(keys) == Section("map", keys, <<>>)
SectionItems(entries) ==
    Section("map", {entries[i].ParameterKey : i \in 1..Len(entries)}, entries)

\* A template file: ext is the extension of template_path; yamlOk / safeOk /
\* jsonOk: load_cloudformation_yaml / yaml.safe_load / json.loads parses the
\* body (safe_load rejects the !Ref-style tags); Parameters and
\* hasS3BucketPolicy: what the parsed document holds.
Template(exists, ext, yamlOk, safeOk, jsonOk, parameters, hasPolicy) ==
    [exists |-> exists, ext |-> ext, yamlOk |-> yamlOk, safeOk |-> safeOk,
     jsonOk |-> jsonOk, Parameters |-> parameters, hasS3BucketPolicy |-> hasPolicy]

\* The template declares a parameter named AwsRegion.
DeclaresAwsRegion(tpl) ==
    tpl.Parameters.kind = "map" /\ "AwsRegion" \in tpl.Parameters.keys

\* deploy_function's try-block around the AwsRegion check: the parse chosen
\* by the extension, then the membership tests (any exception is swallowed).
AwsRegionDetected(tpl) ==
    LET parsed == IF tpl.ext \in {"yaml", "yml"} THEN tpl.yamlOk
                  ELSE IF tpl.ext = "json" THEN tpl.jsonOk
                  ELSE FALSE
    IN  parsed /\ tpl.Parameters.kind = "map" /\ "AwsRegion" \in tpl.Parameters.keys

TagParam(tags, key, name) ==
    IF key \in tags.keys THEN <<Param(name, key)>> ELSE <<>>

TagParameters(tags) ==
    IF tags.kind = "absent" THEN <<>>
    ELSE TagParam(tags, "organization", "OrganizationTag")
         \o TagParam(tags, "business_unit", "BusinessUnitTag")
         \o TagParam(tags, "environment", "EnvironmentTag")

MessagingParameters(messaging, solution) ==
    IF messaging.kind = "absent" \/ solution # "messaging" THEN <<>>
    ELSE TagParam(messaging, "email.destination", "EmailDestination")
         \o TagParam(messaging, "sms.destination", "SmsDestination")
         \o TagParam(messaging, "sms.country", "SmsCountry")
         \o TagParam(messaging, "sms.originator_id", "SmsOriginatorId")

\* The parameter list of deploy_function.deploy_cloudformation_template;
\* raised: building it raised an exception (a membership test on None).
BuildParametersDeployFunction(solution, cfg, tpl) ==
    [raised |-> \/ cfg.tags.kind = "null"
                \/ (cfg.messaging.kind = "null" /\ solution = "messaging"),
     params |-> cfg.parameters.entries
                \o (IF AwsRegionDetected(tpl) THEN <<Param("AwsRegion", Region)>>
                    ELSE <<>>)
                \o TagParameters(cfg.tags)
                \o MessagingParameters(cfg.messaging, solution)]

\* The parameter list of aws_infra_report.deploy_cloudformation_template.
BuildParametersInfraReport(solution, cfg, tpl) ==
    [raised |-> cfg.parameters.kind = "null" \/ cfg.tags.kind = "null",
     params |-> cfg.parameters.entries
                \o <<Param("AwsRegion", Region)>>
                \o TagParameters(cfg.tags)]

BuildParameters(impl, solution, cfg, tpl) ==
    IF impl = "deploy_function"
    THEN BuildParametersDeployFunction(solution, cfg, tpl)
    ELSE BuildParametersInfraReport(solution, cfg, tpl)

\* dep: one call of deploy_cloudformation_template.  pc is the place in the
\* function, calls the AWS calls and follow-on actions made so far, failed the
\* follow-on actions that returned False, status / message / params the
\* returned dictionary.  declared, tagsKind and messagingKind remember the
\* inputs: whether the template declares AwsRegion, the kind of the config's
\* tags and messaging sections.  described is what the describe_stacks call
\* that opens the try block reported: "ok", the text of a ClientError, or
\* "Exception"; updated the same for update_stack.  fault is the step whose
\* exception reached the handler at the end of the function, "" if none did;
\* changeSetWait how the wait for change_set_create_complete ended; known
\* and tplExists whether the solution is in the configuration and the
\* template file on disk.
IdleDeploy ==
    [pc |-> "idle", impl |-> "", solution |-> "", export |-> FALSE,
     force |-> FALSE, dry |-> FALSE, yamlOk |-> FALSE, hasPolicy |-> FALSE,
     declared |-> FALSE, tagsKind |-> "", messagingKind |-> "",
     built |-> FALSE, params |-> <<>>, described |-> "", updated |-> "",
     changeSetWait |-> "", fault |-> "", operation |-> "",
     known |-> FALSE, tplExists |-> FALSE,
     path |-> "", outputs |-> {}, calls |-> <<>>, failed |-> {},
     status |-> "", message |-> ""]

Call(api, arg) == [api |-> api, arg |-> arg]

Return(d, status, message) ==
    [d EXCEPT !.pc = "done", !.status = status, !.message = message]

\* A function without the handler: the exception leaves it.
ExceptionEscapes(d) == Return(d, "raised", "")

\* The exception handler at the end of the function.
ReturnError(d) == Return(d, "error", "str(e)")

\* An exception raised by step and not caught before that handler.
Raise(d, step) == ReturnError([d EXCEPT !.fault = step])

\* `if dry_run:` (aws_infra_report's copy has no such parameter).
\* A deployer that ignores dry_run.
DryRunIgnored(a) == FALSE

IsDryRun(a) == a.impl = "deploy_function" /\ a.dry

\* The function up to its first AWS call.
StartResult(a) ==
    LET d == [IdleDeploy EXCEPT !.impl = a.impl, !.solution = a.solution,
                                !.export = a.export, !.force = a.force,
                                !.dry = a.dry,
                                !.known = a.solution \in a.cfg.solutions,
                                !.tplExists = a.tpl.exists,
                                !.yamlOk = IF a.impl = "deploy_function"
                                           THEN a.tpl.yamlOk ELSE a.tpl.safeOk,
                                !.hasPolicy = a.tpl.hasS3BucketPolicy,
                                !.declared = DeclaresAwsRegion(a.tpl),
                                !.tagsKind = a.cfg.tags.kind,
                                !.messagingKind = a.cfg.messaging.kind]
        b == BuildParameters(a.impl, a.solution, a.cfg, a.tpl)
    IN  IF a.solution \notin a.cfg.solutions
        THEN Return(d, "error", "Solution not found in configuration.")
        ELSE IF ~a.tpl.exists
        THEN Return(d, "error", "Template file not found.")
        ELSE IF b.raised
        THEN Raise(d, "parameters")
        ELSE IF IsDryRun(a)
        THEN Return([d EXCEPT !.built = TRUE, !.params = b.params],
                    "dry_run", "Dry run completed successfully")
        ELSE [d EXCEPT !.built = TRUE, !.params = b.params, !.pc = "describe"]

Log(d, api, arg) == [d EXCEPT !.calls = Append(@, Call(api, arg))]

\* `parameters` is read for the last time by update_stack, create_stack or
\* create_change_set; the model forgets the list once none of them can follow.
ParamsLivePcs == {"describe", "update", "create", "create_change_set"}
Settle(d) ==
    IF d.pc \in ParamsLivePcs \/ d.status = "dry_run"
    THEN d
    ELSE [d EXCEPT !.params = <<>>]

NoUpdates == "No updates are to be performed"
DoesNotExist == "does not exist"

\* A handler that answers 'No updates are to be performed' with a change
\* set whether or not force_update is set.
ClientErrorHandlerAlwaysForcing(d, msg) ==
    IF msg = DoesNotExist THEN [d EXCEPT !.pc = "create"]
    ELSE IF msg = NoUpdates THEN [d EXCEPT !.pc = "create_change_set"]
    ELSE Raise(d, d.calls[Len(d.calls)].api)

\* The `except cfn.exceptions.ClientError as e` clause around describe_stacks
\* and update_stack, on the text found in str(e).
ClientErrorHandler(d, msg) ==
    IF msg = DoesNotExist
    THEN [d EXCEPT !.pc = "create"]
    ELSE IF msg = NoUpdates /\ d.impl = "deploy_function" /\ d.force
    THEN [d EXCEPT !.pc = "create_change_set"]
    ELSE IF msg = NoUpdates
    THEN [d EXCEPT !.pc = "noupdate_describe", !.path = "noupdate"]
    ELSE Raise(d, d.calls[Len(d.calls)].api)

\* The waiter configuration passed to stack_<operation>_complete.
\* A waiter left at its default configuration.
DefaultWaiterConfig(impl) == "default"

StackWaiterConfig(impl) ==
    IF impl = "deploy_function" THEN "Delay=30,MaxAttempts=120" ELSE "default"

\* The follow-on actions after the stack outputs are read, in program order.
FollowOns ==
    <<"export", "parse", "get_distribution", "attach", "upload", "vod1", "vod2">>

\* A bucket-policy block that only runs after the stack was changed.
PolicyBlockAfterStackChange(d) ==
    /\ "S3BucketName" \in d.outputs
    /\ d.path = "main"
    /\ \/ d.solution = "static_website"
       \/ d.impl = "deploy_function" /\ d.solution = "combined_website"

\* The `if` guarding the bucket-policy block.
PolicyBlock(d) ==
    /\ "S3BucketName" \in d.outputs
    /\ \/ d.solution = "static_website"
       \/ d.path = "main" /\ d.impl = "deploy_function"
          /\ d.solution = "combined_website"

Applicable(d, step) ==
    CASE step = "export" ->
            IF d.path = "main" THEN d.export
            ELSE d.export /\ "CloudFrontDistributionDomainName" \in d.outputs
      [] step = "parse" -> PolicyBlock(d)
      [] step = "get_distribution" ->
            PolicyBlock(d) /\ ~d.hasPolicy
            /\ "CloudFrontDistributionId" \in d.outputs
      [] step = "attach" -> PolicyBlock(d) /\ ~d.hasPolicy
      [] step = "upload" -> d.impl = "deploy_function" /\ PolicyBlock(d)
      [] step \in {"vod1", "vod2"} ->
            /\ d.impl = "deploy_function" /\ d.path = "main"
            /\ d.solution = "combined_website"
            /\ "VodBucketName" \in d.outputs

SuccessMessage(d) ==
    IF d.path = "main" THEN "Stack " \o d.operation \o " completed successfully!"
    ELSE "No updates were performed on the stack."

\* Control after follow-on k-1: the next follow-on whose guard holds, or the
\* return of the success dictionary.
RECURSIVE AfterStep(_, _)
AfterStep(d, k) ==
    IF k > Len(FollowOns)
    THEN Return(d, "success", SuccessMessage(d))
    ELSE IF Applicable(d, FollowOns[k])
         THEN [d EXCEPT !.pc = FollowOns[k]]
         ELSE AfterStep(d, k + 1)

\* A follow-on action that returns a bool the caller only prints.
FollowOn(d, api, arg, ok, k) ==
    AfterStep([Log(d, api, arg) EXCEPT
                  !.failed = IF ok THEN @ ELSE @ \cup {api}], k)

(* ------------------------------ actions ------------------------------ *)
StartDeploy(a) ==
    /\ dep.pc = "idle"
    /\ usp.pc = "idle"
    /\ dep' = Settle(StartResult(a))
    /\ UNCHANGED <<usp, policyVars, webVars, reportVars>>

\* resp.kind: "ok", "ClientError" (with the text in resp.msg) or "Exception".
DescribeStacks(resp) ==
    /\ dep.pc = "describe"
    /\ LET d == [Log(dep, "describe_stacks", "") EXCEPT
                     !.described = IF resp.kind = "ClientError" THEN resp.msg
                                   ELSE resp.kind]
       IN  dep' = Settle(IF resp.kind = "ok" THEN [d EXCEPT !.pc = "update"]
                         ELSE IF resp.kind = "ClientError"
                         THEN ClientErrorHandler(d, resp.msg)
                         ELSE Raise(d, "describe_stacks"))
    /\ UNCHANGED <<usp, policyVars, webVars, reportVars>>

UpdateStack(resp) ==
    /\ dep.pc = "update"
    /\ LET d == [Log(dep, "update_stack", "") EXCEPT
                     !.updated = IF resp.kind = "ClientError" THEN resp.msg
                                 ELSE resp.kind]
       IN  dep' = Settle(IF resp.kind = "ok"
                         THEN [d EXCEPT !.pc = "wait", !.operation = "update",
                                        !.path = "main"]
                         ELSE IF resp.kind = "ClientError"
                         THEN ClientErrorHandler(d, resp.msg)
                         ELSE Raise(d, "update_stack"))
    /\ UNCHANGED <<usp, policyVars, webVars, reportVars>>

CreateStack(ok) ==
    /\ dep.pc = "create"
    /\ LET d == Log(dep, "create_stack", "")
       IN  dep' = Settle(IF ok
                         THEN [d EXCEPT !.pc = "wait", !.operation = "create",
                                        !.path = "main"]
                         ELSE Raise(d, "create_stack"))
    /\ UNCHANGED <<usp, policyVars, webVars, reportVars>>

CreateChangeSet(ok) ==
    /\ dep.pc = "create_change_set"
    /\ LET d == Log(dep, "create_change_set", "")
       IN  dep' = Settle(IF ok THEN [d EXCEPT !.pc = "change_set_wait"]
                         ELSE Raise(d, "create_change_set"))
    /\ UNCHANGED <<usp, policyVars, webVars, reportVars>>

\* A wait whose WaiterError is ignored: the change set is executed anyway.
WaitChangeSetIgnoringFailure(res) ==
    /\ dep.pc = "change_set_wait"
    /\ LET d == [Log(dep, "wait", "change_set_create_complete") EXCEPT
                     !.changeSetWait = res]
       IN  dep' = IF res \in {"ok", "WaiterError"}
                  THEN [d EXCEPT !.pc = "execute_change_set"]
                  ELSE Raise(d, "change_set_create_complete")
    /\ UNCHANGED <<usp, policyVars, webVars, reportVars>>

\* res: "ok", "WaiterError" or "Exception".
WaitChangeSet(res) ==
    /\ dep.pc = "change_set_wait"
    /\ LET d == [Log(dep, "wait", "change_set_create_complete") EXCEPT
                     !.changeSetWait = res]
       IN  dep' = IF res = "ok" THEN [d EXCEPT !.pc = "execute_change_set"]
                  ELSE IF res = "WaiterError"
                  THEN [d EXCEPT !.pc = "noupdate_describe", !.path = "noupdate"]
                  ELSE Raise(d, "change_set_create_complete")
    /\ UNCHANGED <<usp, policyVars, webVars, reportVars>>

ExecuteChangeSet(ok) ==
    /\ dep.pc = "execute_change_set"
    /\ LET d == Log(dep, "execute_change_set", "")
       IN  dep' = IF ok
                  THEN [d EXCEPT !.pc = "wait", !.operation = "update",
                                 !.path = "main"]
                  ELSE Raise(d, "execute_change_set")
    /\ UNCHANGED <<usp, policyVars, webVars, reportVars>>

WaitStack(ok) ==
    /\ dep.pc = "wait"
    /\ LET d == Log(dep, "wait", "stack_" \o dep.operation \o "_complete,"
                                  \o StackWaiterConfig(dep.impl))
       IN  dep' = IF ok THEN [d EXCEPT !.pc = "describe_outputs"]
                  ELSE Raise(d, "stack_complete")
    /\ UNCHANGED <<usp, policyVars, webVars, reportVars>>

\* The describe_stacks call that reads the outputs, on either path.
DescribeOutputs(ok, outs) ==
    /\ dep.pc \in {"describe_outputs", "noupdate_describe"}
    /\ LET d == Log(dep, "describe_stacks", "outputs")
       IN  dep' = IF ok THEN AfterStep([d EXCEPT !.outputs = outs], 1)
                  ELSE Raise(d, "describe_stacks")
    /\ UNCHANGED <<usp, policyVars, webVars, reportVars>>

ExportDeployedTemplate(ok) ==
    /\ dep.pc = "export"
    /\ dep' = FollowOn(dep, "export_deployed_template", "", ok, 2)
    /\ UNCHANGED <<usp, policyVars, webVars, reportVars>>

\* 'S3BucketPolicy' in <parsed template>.get('Resources', {})
ParseTemplateResources ==
    /\ dep.pc = "parse"
    /\ dep' = IF dep.yamlOk THEN AfterStep(dep, 3) ELSE Raise(dep, "load_cloudformation_yaml")
    /\ UNCHANGED <<usp, policyVars, webVars, reportVars>>

GetDistribution(ok) ==
    /\ dep.pc = "get_distribution"
    /\ LET d == Log(dep, "get_distribution", "")
       IN  dep' = IF ok THEN AfterStep(d, 4) ELSE Raise(d, "get_distribution")
    /\ UNCHANGED <<usp, policyVars, webVars, reportVars>>

AttachPolicyFollowOn(ok) ==
    /\ dep.pc = "attach"
    /\ dep' = FollowOn(dep, "attach_bucket_policy",
                       IF "CloudFrontDistributionId" \in dep.outputs
                       THEN "arn" ELSE "None", ok, 5)
    /\ UNCHANGED <<usp, policyVars, webVars, reportVars>>

UploadStaticWebsite(ok) ==
    /\ dep.pc = "upload"
    /\ dep' = FollowOn(dep, "upload_static_website", "", ok, 6)
    /\ UNCHANGED <<usp, policyVars, webVars, reportVars>>

UploadVodContent(ok) ==
    /\ dep.pc \in {"vod1", "vod2"}
    /\ dep' = FollowOn(dep, "upload_vod_content", "", ok,
                       IF dep.pc = "vod1" THEN 7 ELSE 8)
    /\ UNCHANGED <<usp, policyVars, webVars, reportVars>>

(* ------------------------------ inputs ------------------------------- *)
ConfigSolutions == {"static_website", "combined_website", "messaging"}

ConfigParameterSections ==
    { SectionAbsent, SectionNull,
      SectionItems(<<Param("BucketNamePrefix", "test-bucket")>>),
      SectionItems(<<Param("AwsRegion", "eu-central-1")>>) }

ConfigTagSections ==
    { SectionAbsent, SectionNull,
      SectionMap({"organization", "business_unit", "environment"}) }

ConfigMessagingSections ==
    { SectionAbsent, SectionNull,
      SectionMap({"email.destination", "sms.destination", "sms.country",
                  "sms.originator_id"}) }

DefaultConfig ==
    [solutions |-> ConfigSolutions,
     parameters |-> SectionItems(<<Param("BucketNamePrefix", "test-bucket")>>),
     tags |-> SectionMap({"organization", "business_unit", "environment"}),
     messaging |-> SectionAbsent]

TemplateWithPolicy ==
    Template(TRUE, "yaml", TRUE, FALSE, FALSE,
             SectionMap({"AwsRegion", "BucketNamePrefix"}), TRUE)
TemplatePlain ==
    Template(TRUE, "yaml", TRUE, TRUE, FALSE, SectionMap({"BucketNamePrefix"}), FALSE)
TemplateUnparseable ==
    Template(TRUE, "yaml", FALSE, FALSE, FALSE, SectionAbsent, FALSE)

Templates ==
    { TemplateWithPolicy, TemplatePlain, TemplateUnparseable,
      Template(TRUE, "yml", TRUE, TRUE, FALSE, SectionNull, FALSE),
      Template(TRUE, "json", TRUE, TRUE, TRUE, SectionMap({"AwsRegion"}), FALSE),
      Template(TRUE, "json", TRUE, TRUE, TRUE, SectionAbsent, FALSE),
      Template(TRUE, "template", TRUE, TRUE, TRUE, SectionMap({"AwsRegion"}), FALSE),
      Template(FALSE, "yaml", FALSE, FALSE, FALSE, SectionAbsent, FALSE) }

Input(impl, solution, cfg, tpl, export, force, dry) ==
    [impl |-> impl, solution |-> solution, cfg |-> cfg, tpl |-> tpl,
     export |-> export, force |-> force, dry |-> dry]

Impls == {"deploy_function", "aws_infra_report"}

\* Calls that vary the configuration and the template.
ParamInputs ==
    { Input(impl, solution,
            [solutions |-> ConfigSolutions, parameters |-> p, tags |-> t,
             messaging |-> m], tpl, FALSE, FALSE, dry) :
        impl \in Impls,
        solution \in {"static_website", "messaging", "missing_solution"},
        p \in ConfigParameterSections, t \in ConfigTagSections,
        m \in ConfigMessagingSections, tpl \in Templates,
        dry \in BOOLEAN }

\* Calls that vary the flags and the solution.
FlowInputs ==
    { Input(impl, solution, DefaultConfig, tpl, export, force, dry) :
        impl \in Impls, solution \in ConfigSolutions,
        tpl \in {TemplateWithPolicy, TemplatePlain, TemplateUnparseable},
        export \in BOOLEAN, force \in BOOLEAN, dry \in BOOLEAN }

\* aws_infra_report's copy takes neither force_update nor dry_run.
DeployInputs ==
    { a \in ParamInputs \cup FlowInputs :
        a.impl = "aws_infra_report" => (~a.force /\ ~a.dry) }

Response(kind, msg) == [kind |-> kind, msg |-> msg]
DescribeResponses ==
    { Response("ok", ""), Response("ClientError", DoesNotExist),
      Response("ClientError", "other"), Response("Exception", "") }
UpdateResponses == DescribeResponses \cup {Response("ClientError", NoUpdates)}

OutputSets ==
    { {}, {"CloudFrontDistributionDomainName"}, {"S3BucketName"},
      {"S3BucketName", "VodBucketName"},
      {"S3BucketName", "CloudFrontDistributionId",
       "CloudFrontDistributionDomainName"},
      {"S3BucketName", "VodBucketName", "CloudFrontDistributionId",
       "CloudFrontDistributionDomainName"} }

(* ---------------------- update_stack_parameters ---------------------- *)
\* A stack parameter as describe_stacks reports it and update_stack takes it.
ParameterKeys == {"InstanceType", "KeyName", "Email"}
ParameterValues == {"a", "b"}
Parameter == [ParameterKey : ParameterKeys, ParameterValue : ParameterValues]

MaxParams == 2

KeysOf(s) == {s[i].ParameterKey : i \in 1..Len(s)}

\* Lists of parameters with distinct keys: the Parameters of a stack, and the
\* items of the new_parameters dictionary in insertion order.
ParameterLists ==
    UNION {{s \in [1..n -> Parameter] : Cardinality(KeysOf(s)) = n} :
              n \in 0..MaxParams}

\* d[key] of a dictionary given by its items.
ValueOf(items, key) ==
    LET last == CHOOSE i \in 1..Len(items) :
                    /\ items[i].ParameterKey = key
                    /\ \A j \in (i+1)..Len(items) : items[j].ParameterKey # key
    IN  items[last].ParameterValue

\* The dictionary comprehension: a key keeps the place of its first item and
\* takes the value of its last.
RECURSIVE current_params_dict(_)
current_params_dict(current_parameters) ==
    IF current_parameters = <<>> THEN <<>>
    ELSE LET n == Len(current_parameters)
             front == current_params_dict(SubSeq(current_parameters, 1, n - 1))
             p == current_parameters[n]
         IN  IF p.ParameterKey \in KeysOf(front)
             THEN [i \in 1..Len(front) |->
                      IF front[i].ParameterKey = p.ParameterKey THEN p
                      ELSE front[i]]
             ELSE Append(front, p)

NotCurrent(cur, p) == p.ParameterKey \notin KeysOf(cur)

\* A merge that appends every new parameter, current or not.
UpdateParametersAppendingAll(current_parameters, new_parameters) ==
    current_params_dict(current_parameters) \o new_parameters

\* The two loops that build update_parameters.
update_parameters(current_parameters, new_parameters) ==
    LET cur == current_params_dict(current_parameters)
        merged == [i \in 1..Len(cur) |->
                      IF cur[i].ParameterKey \in KeysOf(new_parameters)
                      THEN [ParameterKey |-> cur[i].ParameterKey,
                            ParameterValue |->
                                ValueOf(new_parameters, cur[i].ParameterKey)]
                      ELSE cur[i]]
        added == SelectSeq(new_parameters, LAMBDA p : NotCurrent(cur, p))
    IN  merged \o added

\* pc is the next AWS call; current what describe_stacks reported, submitted
\* the Parameters handed to update_stack, updated how update_stack ended.
IdleParameters ==
    [pc |-> "idle", new_parameters |-> <<>>, current |-> <<>>,
     submitted |-> <<>>, updated |-> "", calls |-> <<>>,
     status |-> "", message |-> ""]

\* The handler of cfn.exceptions.ClientError, and behind it the handler at
\* the end of the function.
ParametersClientError(u, resp) ==
    IF resp.kind = "ClientError" /\ resp.msg = NoUpdates
    THEN Return(u, "success", "No updates needed for stack.")
    ELSE Return(u, "error", "str(e)")

StartUpdateStackParameters(new_parameters) ==
    /\ usp.pc = "idle"
    /\ dep.pc = "idle"
    /\ usp' = [usp EXCEPT !.pc = "describe", !.new_parameters = new_parameters]
    /\ UNCHANGED <<dep, policyVars, webVars, reportVars>>

ParametersDescribeStacks(resp, current_parameters) ==
    /\ usp.pc = "describe"
    /\ resp.kind # "ok" => current_parameters = <<>>
    /\ LET u == Log(usp, "describe_stacks", "")
       IN  usp' = IF resp.kind = "ok"
                  THEN [u EXCEPT !.pc = "get_template",
                                 !.current = current_parameters]
                  ELSE ParametersClientError(u, resp)
    /\ UNCHANGED <<dep, policyVars, webVars, reportVars>>

ParametersGetTemplate(resp) ==
    /\ usp.pc = "get_template"
    /\ LET u == Log(usp, "get_template", "Original")
       IN  usp' = IF resp.kind = "ok" THEN [u EXCEPT !.pc = "update"]
                  ELSE ParametersClientError(u, resp)
    /\ UNCHANGED <<dep, policyVars, webVars, reportVars>>

ParametersUpdateStack(resp) ==
    /\ usp.pc = "update"
    /\ LET u == [Log(usp, "update_stack", "") EXCEPT
                     !.submitted = update_parameters(usp.current,
                                                     usp.new_parameters),
                     !.updated = IF resp.kind = "ClientError" THEN resp.msg
                                 ELSE resp.kind]
       IN  usp' = IF resp.kind = "ok" THEN [u EXCEPT !.pc = "wait"]
                  ELSE ParametersClientError(u, resp)
    /\ UNCHANGED <<dep, policyVars, webVars, reportVars>>

ParametersWait(ok) ==
    /\ usp.pc = "wait"
    /\ LET u == Log(usp, "wait", "stack_update_complete,"
                                     \o StackWaiterConfig("deploy_function"))
       IN  usp' = IF ok
                  THEN Return(u, "success",
                              "Stack updated successfully with new parameters.")
                  ELSE Return(u, "error", "str(e)")
    /\ UNCHANGED <<dep, policyVars, webVars, reportVars>>

InitDeployer == dep = IdleDeploy /\ usp = IdleParameters

NextDeployer ==
    \/ \E a \in DeployInputs : StartDeploy(a)
    \/ \E resp \in DescribeResponses : DescribeStacks(resp)
    \/ \E resp \in UpdateResponses : UpdateStack(resp)
    \/ \E ok \in BOOLEAN : CreateStack(ok)
    \/ \E ok \in BOOLEAN : CreateChangeSet(ok)
    \/ \E res \in {"ok", "WaiterError", "Exception"} : WaitChangeSet(res)
    \/ \E ok \in BOOLEAN : ExecuteChangeSet(ok)
    \/ \E ok \in BOOLEAN : WaitStack(ok)
    \/ \E ok \in BOOLEAN, outs \in OutputSets : DescribeOutputs(ok, outs)
    \/ \E ok \in BOOLEAN : ExportDeployedTemplate(ok)
    \/ ParseTemplateResources
    \/ \E ok \in BOOLEAN : GetDistribution(ok)
    \/ \E ok \in BOOLEAN : AttachPolicyFollowOn(ok)
    \/ \E ok \in BOOLEAN : UploadStaticWebsite(ok)
    \/ \E ok \in BOOLEAN : UploadVodContent(ok)
    \/ \E new \in ParameterLists : StartUpdateStackParameters(new)
    \/ \E resp \in DescribeResponses, cur \in ParameterLists :
           ParametersDescribeStacks(resp, cur)
    \/ \E resp \in DescribeResponses : ParametersGetTemplate(resp)
    \/ \E resp \in UpdateResponses : ParametersUpdateStack(resp)
    \/ \E ok \in BOOLEAN : ParametersWait(ok)

(***************************************************************************)
(* Index Patcher: update_website.py                                        *)
(* (update_index_html, add_messaging_to_solution_demos)                    *)
(***************************************************************************)
\* The text of a file is a sequence of symbols.  A symbol is a piece of text
\* that the patterns of the program match as a whole or not at all: the
\* pieces of a placeholder, a tag, a run of characters between them.
ApiPlaceholder == <<"${", "Api", "Endpoint", "}">>

EmailPlaceholder == <<"${", "Email", "Address", "}">>

\* 'AWS End User Messaging'
Marker == "AWS End User Messaging"

DivOpen == "<div class=\"solutionDemos\">"
H2Open == "<h2>"
Title == "Solution Demonstrations"
H2Close == "</h2>"
UlOpen == "<ul>"
UlClose == "</ul>"
Nl == "\n"

\* Python's str.replace(old, new): every occurrence, left to right, without
\* overlap; an empty old goes before every symbol and at the end.
\* A replace that stops after the first occurrence.
ReplaceFirst(s, old, new) ==
    IF old = <<>> THEN new \o s
    ELSE LET hits == {i \in 1..(Len(s) - Len(old) + 1) : SubSeq(s, i, i + Len(old) - 1) = old}
         IN  IF hits = {} THEN s
             ELSE LET i == CHOOSE h \in hits : \A g \in hits : h <= g
                  IN  SubSeq(s, 1, i - 1) \o new \o SubSeq(s, i + Len(old), Len(s))

RECURSIVE Replace(_, _, _)
Replace(s, old, new) ==
    IF old = <<>>
    THEN IF s = <<>> THEN new
         ELSE new \o <<Head(s)>> \o Replace(Tail(s), old, new)
    ELSE IF Len(s) < Len(old) THEN s
    ELSE IF SubSeq(s, 1, Len(old)) = old
         THEN new \o Replace(SubSeq(s, Len(old) + 1, Len(s)), old, new)
         ELSE <<Head(s)>> \o Replace(Tail(s), old, new)

\* str.count of a one-symbol text.
Count(s, x) == Cardinality({i \in 1..Len(s) : s[i] = x})

(* ------------------ the directory holding index.html ------------------ *)
RootDir == "iac/static_website"
ContentSubdir == "iac/static_website/content"
CustomDir == "web/content"
Dirs == {RootDir, ContentSubdir, CustomDir}
\* None or the empty string: no directory.
NoDir == ""

File(text) == [exists |-> TRUE, text |-> text]
NoFile == [exists |-> FALSE, text |-> <<>>]

\* config['solutions']['static_website']['content_dir'], NoDir when a key of
\* the chain is missing.
ContentDirPath(config) == config.content_dir

\* The directory the functions of update_website.py work in; NoDir when
\* iac/static_website is missing (they return False).
WebsiteDir(config, dirs) ==
    IF RootDir \notin dirs THEN NoDir
    ELSE IF ContentDirPath(config) # NoDir /\ ContentDirPath(config) \in dirs
         THEN ContentDirPath(config)
    ELSE IF ContentSubdir \in dirs THEN ContentSubdir
    ELSE RootDir

(* -------------------------- update_index_html -------------------------- *)
HasEmailDestination(config) == config.email.has

SubstitutePlaceholders(content, api_endpoint, config) ==
    LET c1 == IF IsInfix(ApiPlaceholder, content)
              THEN Replace(content, ApiPlaceholder, api_endpoint)
              ELSE content
    IN  IF IsInfix(EmailPlaceholder, c1) /\ HasEmailDestination(config)
        THEN Replace(c1, EmailPlaceholder, config.email.destination)
        ELSE c1

\* The result of one call: what it returns ("None" when the except branch
\* ran, which has no return statement), the directory used and the text
\* index.html has afterwards.
update_index_html(api_endpoint, s, ioOk) ==
    LET dir == WebsiteDir(s.config, s.dirs)
    IN  IF dir = NoDir THEN [ret |-> "False", dir |-> dir, index |-> s.index]
        ELSE IF ~s.index[dir].exists
             THEN [ret |-> "False", dir |-> dir, index |-> s.index]
        ELSE IF ~ioOk
             THEN [ret |-> "None", dir |-> dir, index |-> s.index]
        ELSE [ret |-> "True", dir |-> dir,
              index |-> [s.index EXCEPT ![dir] =
                  File(SubstitutePlaceholders(s.index[dir].text, api_endpoint, s.config))]]

(* -------------------- add_messaging_to_solution_demos ------------------ *)
IsSpace(x) == x = Nl

RECURSIVE SkipSpace(_, _)
SkipSpace(s, i) ==
    IF i <= Len(s) /\ IsSpace(s[i]) THEN SkipSpace(s, i + 1) ELSE i

At(s, i, x) == i <= Len(s) /\ s[i] = x

\* <div class="solutionDemos">\s*<h2>\s*Solution Demonstrations\s*</h2>\s*<ul>
\* tried at position i: the position after <ul>, 0 when it does not match.
HeadingEnd(s, i) ==
    IF ~At(s, i, DivOpen) THEN 0
    ELSE LET a == SkipSpace(s, i + 1)
         IN  IF ~At(s, a, H2Open) THEN 0
             ELSE LET b == SkipSpace(s, a + 1)
                  IN  IF ~At(s, b, Title) THEN 0
                      ELSE LET c == SkipSpace(s, b + 1)
                           IN  IF ~At(s, c, H2Close) THEN 0
                               ELSE LET d == SkipSpace(s, c + 1)
                                    IN  IF At(s, d, UlOpen) THEN d + 1 ELSE 0

Closings(s, from) == {k \in from..Len(s) : s[k] = UlClose}

MatchStarts(s) ==
    {i \in 1..Len(s) : HeadingEnd(s, i) > 0 /\ Closings(s, HeadingEnd(s, i)) # {}}

Min(S) == CHOOSE x \in S : \A y \in S : x <= y

\* re.search(solution_demos_pattern, content, re.DOTALL)
HasSolutionDemos(s) == MatchStarts(s) # {}

\* match.group(1): the text between <ul> and the first </ul> after it.
SolutionsList(s) ==
    LET from == HeadingEnd(s, Min(MatchStarts(s)))
    IN  SubSeq(s, from, Min(Closings(s, from)) - 1)

NewSolution ==
    <<Nl, "<li>", Marker, "Amazon SES, PinpointSMSVoice",
      "Contact Form with Email and SMS", "</li>">>

add_messaging_to_solution_demos(s, ioOk) ==
    LET dir == WebsiteDir(s.config, s.dirs)
        same == [dir |-> dir, index |-> s.index]
    IN  IF dir = NoDir THEN [ret |-> "False"] @@ same
        ELSE IF ~s.index[dir].exists THEN [ret |-> "False"] @@ same
        ELSE IF ~ioOk THEN [ret |-> "False"] @@ same
        ELSE LET content == s.index[dir].text
             IN  IF Count(content, Marker) > 0 THEN [ret |-> "True"] @@ same
                 ELSE IF ~HasSolutionDemos(content) THEN [ret |-> "False"] @@ same
                 ELSE [ret |-> "True", dir |-> dir,
                       index |-> [s.index EXCEPT ![dir] =
                           File(Replace(content, SolutionsList(content),
                                        SolutionsList(content) \o NewSolution))]]

(* ------------------------------ inputs ------------------------------- *)
MaxRuns == 3

NoEmail == [has |-> FALSE, destination |-> <<>>]
Email(text) == [has |-> TRUE, destination |-> text]

Config(content_dir, email) == [content_dir |-> content_dir, email |-> email]

Item(name) == <<"<li>", name, "</li>">>

DemoSection(list) ==
    <<DivOpen, Nl, H2Open, Title, H2Close, Nl, UlOpen>> \o list \o <<UlClose>>

ContactLink == <<"<a href=\"">> \o ApiPlaceholder \o <<"/contact\">">>

MailLink == <<"<a href=\"mailto:">> \o EmailPlaceholder \o <<"\">">>

Pages ==
    { <<"<body>">> \o ContactLink \o DemoSection(Item("Static Website")) \o <<"</body>">>,
      ContactLink \o MailLink \o ContactLink \o DemoSection(Item("Static Website") \o Item("Streaming")),
      <<"${">> \o ApiPlaceholder \o <<"Endpoint", "}">>,
      <<"${">> \o EmailPlaceholder \o <<"Endpoint", "}">> \o ContactLink,
      MailLink,
      <<"<body>", "</body>">>,
      DemoSection(<<>>),
      <<"<body>", Nl>> \o DemoSection(<<Nl>>) \o <<Nl, "</body>">>,
      DemoSection(Item("Static Website")) \o <<UlOpen>> \o Item("Static Website") \o <<UlClose>>,
      <<DivOpen, H2Open, Title, H2Close, UlOpen>> \o Item("Static Website") \o <<UlClose>>,
      <<DivOpen, Nl, H2Open, Title, H2Close, Nl, UlOpen>> \o Item("Static Website"),
      DemoSection(Item("Static Website") \o NewSolution),
      <<"<p>", Marker, "</p>">> \o DemoSection(Item("Static Website")) }

BasePage == ContactLink \o DemoSection(Item("Static Website"))

ApiEndpoints ==
    { <<"https://", "abc123.execute-api.us-west-2.amazonaws.com/prod">>,
      <<"Api">>,
      <<"https://">> \o ApiPlaceholder }

EmailDestinations == {NoEmail, Email(<<"me@example.com">>), Email(<<"Api">>)}

Layouts == {dirs \in SUBSET Dirs : ContentSubdir \in dirs => RootDir \in dirs}

\* The sites: every page in iac/static_website alone, and the base page in
\* every layout of directories, index.html present in any of them.
Sites ==
    { [dirs |-> {RootDir},
       index |-> [d \in Dirs |-> IF d = RootDir THEN File(page) ELSE NoFile],
       config |-> Config(NoDir, email)] :
          page \in Pages, email \in EmailDestinations }
    \cup
    { [dirs |-> dirs,
       index |-> [d \in Dirs |-> IF d \in withIndex THEN File(BasePage) ELSE NoFile],
       config |-> Config(content_dir, NoEmail)] :
          dirs \in Layouts, withIndex \in SUBSET Dirs, content_dir \in {NoDir, CustomDir} }

(* ------------------------------ actions ------------------------------ *)
\* web: the last call.  repeat: the call before it was the same function
\* with the same endpoint and returned True; changed: the call changed a
\* file; fresh: the call found the Solution Demonstrations list and no
\* 'AWS End User Messaging' in the file, or follows such a call of
\* add_messaging_to_solution_demos directly.
NoWebCall == [op |-> "", api_endpoint |-> <<>>, ret |-> "", dir |-> NoDir, ioOk |-> FALSE,
              repeat |-> FALSE, changed |-> FALSE, fresh |-> FALSE, runs |-> 0]

UpdateIndexHtml(api_endpoint, ioOk) ==
    /\ web.runs < MaxRuns
    /\ LET r == update_index_html(api_endpoint, site, ioOk)
       IN  /\ site' = [site EXCEPT !.index = r.index]
           /\ web' = [op |-> "update_index_html", api_endpoint |-> api_endpoint,
                      ret |-> r.ret, dir |-> r.dir, ioOk |-> ioOk,
                      repeat |-> /\ web.op = "update_index_html"
                                 /\ web.api_endpoint = api_endpoint
                                 /\ web.ret = "True",
                      changed |-> r.index # site.index,
                      fresh |-> FALSE,
                      runs |-> web.runs + 1]
    /\ UNCHANGED <<upl, urls, cli, policyVars, deployVars, reportVars>>

AddMessagingToSolutionDemos(ioOk) ==
    /\ web.runs < MaxRuns
    /\ LET r == add_messaging_to_solution_demos(site, ioOk)
           eligible == /\ r.dir # NoDir
                       /\ site.index[r.dir].exists
                       /\ HasSolutionDemos(site.index[r.dir].text)
                       /\ Count(site.index[r.dir].text, Marker) = 0
       IN  /\ site' = [site EXCEPT !.index = r.index]
           /\ web' = [op |-> "add_messaging_to_solution_demos", api_endpoint |-> <<>>,
                      ret |-> r.ret, dir |-> r.dir, ioOk |-> ioOk,
                      repeat |-> /\ web.op = "add_messaging_to_solution_demos"
                                 /\ web.ret = "True",
                      changed |-> r.index # site.index,
                      fresh |-> eligible \/ (web.op = "add_messaging_to_solution_demos"
                                             /\ web.fresh),
                      runs |-> web.runs + 1]
    /\ UNCHANGED <<upl, urls, cli, policyVars, deployVars, reportVars>>

(* ------------- upload_static_website (deploy_function.py) -------------- *)
\* A path found by glob('**/*'): rel the directories between the source
\* directory and the entry ("" or "css/"), stem and suffix the two parts of
\* its name as pathlib splits it, isFile whether it is a regular file.
Entry(rel, stem, suffix, isFile) ==
    [rel |-> rel, stem |-> stem, suffix |-> suffix, isFile |-> isFile]

NameOf(e) == e.stem \o e.suffix

\* str.lower() on the suffixes that occur.
Lower(suffix) ==
    CASE suffix = ".CSS" -> ".css"
      [] suffix = ".JPG" -> ".jpg"
      [] suffix = ".HTML" -> ".html"
      [] OTHER -> suffix

ImageSuffixes == {".jpg", ".jpeg", ".png", ".gif", ".svg", ".ico"}

\* An allow-list that lets every .html file through.
AllowedAnyHtml(e) ==
    \/ Lower(e.suffix) = ".html"
    \/ Lower(e.suffix) = ".css"
    \/ Lower(e.suffix) \in ImageSuffixes

\* `file_path.name == 'index.html' or file_path.suffix.lower() == '.css' or
\*  file_path.suffix.lower() in [...]`
Allowed(e) ==
    \/ NameOf(e) = "index.html"
    \/ Lower(e.suffix) = ".css"
    \/ Lower(e.suffix) \in ImageSuffixes

\* s3_key = str(relative_path)
S3Key(e) == e.rel \o NameOf(e)

\* The content type, chosen by the suffix as it is written.
ContentType(e) ==
    CASE e.suffix = ".html" -> "text/html"
      [] e.suffix = ".css" -> "text/css"
      [] e.suffix \in {".jpg", ".jpeg"} -> "image/jpeg"
      [] e.suffix = ".png" -> "image/png"
      [] e.suffix = ".gif" -> "image/gif"
      [] e.suffix = ".svg" -> "image/svg+xml"
      [] e.suffix = ".ico" -> "image/x-icon"
      [] OTHER -> "application/octet-stream"

PutObject(e) == [Key |-> S3Key(e), ContentType |-> ContentType(e)]

Entries ==
    { Entry("", "index", ".html", TRUE), Entry("", "other", ".html", TRUE),
      Entry("", "Index", ".HTML", TRUE), Entry("css/", "index", ".css", TRUE),
      Entry("", "STYLE", ".CSS", TRUE), Entry("", "me", ".png", TRUE),
      Entry("", "photo", ".JPG", TRUE), Entry("", "script", ".js", TRUE),
      Entry("", "cloudformation-template", ".yaml", TRUE),
      Entry("", "css", "", FALSE) }

MaxFiles == 2

\* What glob may yield: entries of the source directory, none twice.
Globs ==
    UNION {{s \in [1..n -> Entries] : Cardinality(Range(s)) = n} :
              n \in 0..MaxFiles}

\* upl: one call.  pc the place in the function, dirs the directories that
\* exist, content_dir the configured directory, glob the entries of the
\* source directory, i the entry the loop is at, puts the put_object calls
\* made, dir the source directory chosen, ret the value returned.
UploadCall(dirs, content_dir, glob) ==
    [pc |-> "start", dirs |-> dirs, content_dir |-> content_dir,
     glob |-> glob, i |-> 1, puts |-> <<>>, dir |-> NoDir, ret |-> ""]

NoUploadCall == [UploadCall({}, NoDir, <<>>) EXCEPT !.pc = "idle"]

UploadReturn(u, ret) == [u EXCEPT !.pc = "done", !.ret = ret]

\* The choice of the source directory.
ResolveWebsiteDir ==
    /\ upl.pc = "start"
    /\ LET dir == WebsiteDir([content_dir |-> upl.content_dir], upl.dirs)
       IN  upl' = IF dir = NoDir THEN UploadReturn(upl, "False")
                  ELSE [upl EXCEPT !.pc = "head_bucket", !.dir = dir]
    /\ UNCHANGED <<site, web, urls, cli, policyVars, deployVars, reportVars>>

HeadBucket(ok) ==
    /\ upl.pc = "head_bucket"
    /\ upl' = IF ok THEN [upl EXCEPT !.pc = "walk"]
              ELSE UploadReturn(upl, "False")
    /\ UNCHANGED <<site, web, urls, cli, policyVars, deployVars, reportVars>>

\* One turn of the loop over glob; putOk: whether put_object answers.
VisitEntry(putOk) ==
    /\ upl.pc = "walk"
    /\ upl.i <= Len(upl.glob)
    /\ LET e == upl.glob[upl.i]
       IN  IF e.isFile /\ Allowed(e)
           THEN upl' = IF putOk
                       THEN [upl EXCEPT !.i = @ + 1,
                                        !.puts = Append(@, PutObject(e))]
                       ELSE UploadReturn([upl EXCEPT !.puts =
                                              Append(@, PutObject(e))], "False")
           ELSE putOk /\ upl' = [upl EXCEPT !.i = @ + 1]
    /\ UNCHANGED <<site, web, urls, cli, policyVars, deployVars, reportVars>>

UploadDone ==
    /\ upl.pc = "walk"
    /\ upl.i > Len(upl.glob)
    /\ upl' = UploadReturn(upl, "True")
    /\ UNCHANGED <<site, web, urls, cli, policyVars, deployVars, reportVars>>

NextUploader ==
    \/ ResolveWebsiteDir
    \/ \E ok \in BOOLEAN : HeadBucket(ok)
    \/ \E putOk \in BOOLEAN : VisitEntry(putOk)
    \/ UploadDone

InitWeb == site \in Sites /\ web = NoWebCall /\ upl = NoUploadCall

NextWeb ==
    \/ \E api_endpoint \in ApiEndpoints, ioOk \in BOOLEAN :
           UpdateIndexHtml(api_endpoint, ioOk)
    \/ \E ioOk \in BOOLEAN : AddMessagingToSolutionDemos(ioOk)

(* ---------------------- add_streaming_media_buttons -------------------- *)
\* index.html as the function sees it: the marker it looks for, the opening
\* tag and the closing tag of the communication buttons, and the two places
\* an endpoint can be stored in: an attribute data-<key>="..." (the one the
\* update branch rewrites) and a member of the streamingEndpoints object of
\* the inserted script (the one the insertion writes).
BlockId == "id=\"streaming-buttons\""
CommOpen == "<div class=\"communication-buttons\">"
DivEnd == "</div>"
Quote == "\""

StreamKeys == {"hls", "dash", "vod"}

DataAttr(key) ==
    CASE key = "hls" -> "data-hls-url=\""
      [] key = "dash" -> "data-dash-url=\""
      [] key = "vod" -> "data-vod-bucket=\""

JsMember(key) == key \o ": \""

\* streaming_endpoints.get(key, '')
Get(d, key) == IF key \in DOMAIN d THEN d[key] ELSE ""

\* re.sub(r'data-<key>="[^"]*"', f'data-<key>="{value}"', content)
SubAttr(content, key, value) ==
    [i \in 1..Len(content) |->
        IF i > 1 /\ i < Len(content) /\ content[i-1] = DataAttr(key) /\ content[i+1] = Quote
        THEN value ELSE content[i]]

\* The three substitutions of the branch taken when the marker is found,
\* each under 'if <key> in streaming_endpoints'.
UpdateEndpoints(content, d) ==
    LET c1 == IF "hls" \in DOMAIN d THEN SubAttr(content, "hls", d["hls"]) ELSE content
        c2 == IF "dash" \in DOMAIN d THEN SubAttr(c1, "dash", d["dash"]) ELSE c1
    IN  IF "vod" \in DOMAIN d THEN SubAttr(c2, "vod", d["vod"]) ELSE c2

\* The f-string streaming_buttons.
StreamingButtons(d) ==
    << "<div class=\"streaming-buttons\" ", BlockId, ">",
       "<button onclick=\"playLiveStream()\">", "<button onclick=\"playVOD()\">", DivEnd,
       "<script>", "const streamingEndpoints = {",
       JsMember("hls"), Get(d, "hls"), Quote,
       JsMember("dash"), Get(d, "dash"), Quote,
       JsMember("vod"), Get(d, "vod"), Quote,
       "};", "</script>" >>

\* re.search(r'<div class="communication-buttons">(.*?)</div>', content,
\* re.DOTALL).group(0); <<>> when there is no match.
CommButtons(content) ==
    LET opens == {i \in 1..Len(content) : content[i] = CommOpen}
    IN  IF opens = {} THEN <<>>
        ELSE LET i == Min(opens)
                 ends == {j \in i+1..Len(content) : content[j] = DivEnd}
             IN  IF ends = {} THEN <<>> ELSE SubSeq(content, i, Min(ends))

add_streaming_media_buttons(streaming_endpoints, s, ioOk) ==
    LET dir == WebsiteDir(s.config, s.dirs)
        content == s.index[dir].text
        existing_buttons == CommButtons(content)
    IN  IF dir = NoDir THEN [ret |-> "False", dir |-> dir, index |-> s.index]
        ELSE IF ~s.index[dir].exists
             THEN [ret |-> "False", dir |-> dir, index |-> s.index]
        ELSE IF ~ioOk
             THEN [ret |-> "False", dir |-> dir, index |-> s.index]
        ELSE IF BlockId \in Range(content)
             THEN [ret |-> "True", dir |-> dir,
                   index |-> [s.index EXCEPT ![dir] =
                       File(UpdateEndpoints(content, streaming_endpoints))]]
        ELSE IF existing_buttons = <<>>
             THEN [ret |-> "False", dir |-> dir, index |-> s.index]
        ELSE [ret |-> "True", dir |-> dir,
              index |-> [s.index EXCEPT ![dir] =
                  File(Replace(content, existing_buttons,
                               existing_buttons \o StreamingButtons(streaming_endpoints)))]]

Urls == {"https://a.example/live", "https://b.example/live"}

StreamingEndpointDicts == UNION {[K -> Urls] : K \in SUBSET StreamKeys}

ButtonPages ==
    { <<"<body>", CommOpen, "<button>Contact</button>", DivEnd, "</body>">>,
      <<"<body>", "</body>">>,
      <<CommOpen, "<button>Contact</button>">>,
      <<CommOpen, DivEnd, "<hr>", CommOpen, DivEnd>>,
      <<CommOpen, DivEnd, "<div ", BlockId,
        DataAttr("hls"), "", Quote, DataAttr("dash"), "https://old.example", Quote,
        DataAttr("vod"), "old-bucket", Quote, ">", DivEnd>> }

ButtonSites ==
    { [dirs |-> {RootDir},
       index |-> [d \in Dirs |-> IF d = RootDir THEN File(page) ELSE NoFile],
       config |-> Config(NoDir, NoEmail)] : page \in ButtonPages }
    \cup
    { [dirs |-> dirs, index |-> [d \in Dirs |-> NoFile], config |-> Config(NoDir, NoEmail)] :
          dirs \in {{}, {RootDir}} }

\* web.repeat: before the call the file held a block that a call of this
\* function had inserted; web.fresh: it holds one after the call;
\* web.blocks: the number of markers in the file before the call.
AddStreamingMediaButtons(streaming_endpoints, ioOk) ==
    /\ web.runs < MaxRuns
    /\ LET r == add_streaming_media_buttons(streaming_endpoints, site, ioOk)
           own == web.op = "add_streaming_media_buttons" /\ web.fresh
           inserted == /\ r.ret = "True"
                       /\ BlockId \notin Range(site.index[r.dir].text)
       IN  /\ site' = [site EXCEPT !.index = r.index]
           /\ web' = [op |-> "add_streaming_media_buttons", api_endpoint |-> <<>>,
                      ret |-> r.ret, dir |-> r.dir, ioOk |-> ioOk,
                      repeat |-> own,
                      changed |-> r.index # site.index,
                      fresh |-> own \/ inserted,
                      runs |-> web.runs + 1,
                      streaming_endpoints |-> streaming_endpoints,
                      blocks |-> IF r.dir = NoDir THEN 0
                                 ELSE Count(site.index[r.dir].text, BlockId)]
    /\ UNCHANGED <<upl, urls, cli, policyVars, deployVars, reportVars>>

InitButtons == site \in ButtonSites /\ web = NoWebCall /\ upl = NoUploadCall

NextButtons ==
    \E streaming_endpoints \in StreamingEndpointDicts, ioOk \in BOOLEAN :
        AddStreamingMediaButtons(streaming_endpoints, ioOk)

(***************************************************************************)
(* Streaming URLs: update_website_streaming_urls of deploy_function.py     *)
(***************************************************************************)
\* The names the module deploy_function binds at import time (lines 1-7):
\* evaluating any other bare name inside one of its functions raises
\* NameError.
ModuleNames == {"boto3", "yaml", "json", "os", "mimetypes", "datetime", "Path"}

OutputKeys ==
    {"HlsEndpointUrl", "StaticWebsiteBucketName", "VodBucketName", "CloudFrontDistributionId",
     "CloudFrontDistributionDomainName"}

required_outputs == {"HlsEndpointUrl", "StaticWebsiteBucketName", "VodBucketName"}

\* urls.calls: the AWS calls made, in order; urls.warnings: the 'Warning:'
\* lines printed; urls.status: the status of the returned dict, "" while
\* the function runs.
IdleUrls ==
    [pc |-> "idle", html_file_path |-> "", outputs |-> {}, calls |-> <<>>, warnings |-> {},
     status |-> ""]

\* html_file_path: "" when the argument is None or empty; the function then
\* works on iac/static_website/index.html.
DefaultHtmlFilePath == "iac/static_website/index.html"

HtmlFilePaths == {"", DefaultHtmlFilePath, "build/index.html"}

StartUrls(html_file_path) ==
    [IdleUrls EXCEPT !.pc = "describe_stacks",
                     !.html_file_path = IF html_file_path = "" THEN DefaultHtmlFilePath
                                        ELSE html_file_path]

UrlsReturn(u, status) == [u EXCEPT !.pc = "done", !.status = status]

UrlsCall(u, api, arg) == [u EXCEPT !.calls = Append(@, [api |-> api, arg |-> arg])]

UrlsDescribeStacks(ok, outputs) ==
    /\ urls.pc = "describe_stacks"
    /\ LET u == UrlsCall(urls, "describe_stacks", "")
       IN  urls' = IF ~ok THEN UrlsReturn(u, "error")
                   ELSE IF required_outputs \ outputs # {}
                        THEN UrlsReturn([u EXCEPT !.outputs = outputs], "error")
                   ELSE [u EXCEPT !.outputs = outputs, !.pc = "html_file"]
    /\ UNCHANGED <<site, web, upl, cli, policyVars, deployVars, reportVars>>

\* html_file_path.exists() and update_streaming_endpoints.
UrlsUpdateHtml(exists, update_success) ==
    /\ urls.pc = "html_file"
    /\ urls' = IF exists /\ update_success THEN [urls EXCEPT !.pc = "put_object"]
               ELSE UrlsReturn(urls, "error")
    /\ UNCHANGED <<site, web, upl, cli, policyVars, deployVars, reportVars>>

UrlsPutObject(ok) ==
    /\ urls.pc = "put_object"
    /\ LET u == UrlsCall(urls, "put_object", "index.html")
       IN  urls' = IF ok THEN [u EXCEPT !.pc = "create_invalidation"]
                   ELSE UrlsReturn(u, "error")
    /\ UNCHANGED <<site, web, upl, cli, policyVars, deployVars, reportVars>>

\* The try block of the invalidation: the arguments of create_invalidation
\* are evaluated before the call, 'CallerReference': str(int(time.time()))
\* among them; every exception ends in the warning.
UrlsCreateInvalidation(ok) ==
    /\ urls.pc = "create_invalidation"
    /\ urls' =
         IF "CloudFrontDistributionId" \notin urls.outputs
         THEN [urls EXCEPT !.pc = "list_objects_v2"]
         ELSE IF "time" \notin ModuleNames
         THEN [urls EXCEPT !.pc = "list_objects_v2",
                           !.warnings = @ \cup {"Failed to create CloudFront invalidation"}]
         ELSE LET u == UrlsCall(urls, "create_invalidation", "/index.html")
              IN  IF ok THEN [u EXCEPT !.pc = "list_objects_v2"]
                  ELSE [u EXCEPT !.pc = "list_objects_v2",
                                 !.warnings = @ \cup {"Failed to create CloudFront invalidation"}]
    /\ UNCHANGED <<site, web, upl, cli, policyVars, deployVars, reportVars>>

UrlsListVod(ok) ==
    /\ urls.pc = "list_objects_v2"
    /\ LET u == UrlsCall(urls, "list_objects_v2", "vod/")
       IN  urls' = UrlsReturn(IF ok THEN u
                              ELSE [u EXCEPT !.warnings =
                                       @ \cup {"Failed to list VOD bucket contents"}],
                              "success")
    /\ UNCHANGED <<site, web, upl, cli, policyVars, deployVars, reportVars>>

InitUrls == \E html_file_path \in HtmlFilePaths : urls = StartUrls(html_file_path)

NextUrls ==
    \/ \E ok \in BOOLEAN, outputs \in SUBSET OutputKeys : UrlsDescribeStacks(ok, outputs)
    \/ \E exists \in BOOLEAN, update_success \in BOOLEAN : UrlsUpdateHtml(exists, update_success)
    \/ \E ok \in BOOLEAN : UrlsPutObject(ok)
    \/ \E ok \in BOOLEAN : UrlsCreateInvalidation(ok)
    \/ \E ok \in BOOLEAN : UrlsListVod(ok)

(***************************************************************************)
(* Command line: main of aws_resource_manager.py                           *)
(***************************************************************************)
\* The arguments main looks at; "" is an option that was not given.
Args(attach_bucket_policy, deploy, stack_name, static_website_stack, upload_resume,
     s3_bucket, cloudfront_distribution_id) ==
    [attach_bucket_policy |-> attach_bucket_policy, deploy |-> deploy,
     stack_name |-> stack_name, static_website_stack |-> static_website_stack,
     upload_resume |-> upload_resume, s3_bucket |-> s3_bucket,
     cloudfront_distribution_id |-> cloudfront_distribution_id]

\* The configuration as far as main reads it: the parameters section of the
\* deployed solution ("missing", "null", or a mapping) and the s3 section
\* ("missing", "null", "empty": a mapping without bucket, "bucket").
ConfiguredBucket == "cfg-bucket"

ExistingParameters(kind) ==
    CASE kind = "map" -> [Environment |-> "prod"]
      [] kind = "map_with_stack" -> [StaticWebsiteStackName |-> "old-site-stack"]
      [] OTHER -> <<>>

\* config.get('s3', {}).get('bucket'): raises AttributeError when the s3
\* section is null.
S3BucketRaises(config) == config.s3 = "null"
S3BucketOfConfig(config) == IF config.s3 = "bucket" THEN ConfiguredBucket ELSE ""

\* config['solutions'][solution]['parameters']['StaticWebsiteStackName'] =
\* args.static_website_stack, the parameters being {} when missing or null.
SetStaticWebsiteStack(parameters, static_website_stack) ==
    [k \in DOMAIN parameters \cup {"StaticWebsiteStackName"} |->
        IF k = "StaticWebsiteStackName" THEN static_website_stack ELSE parameters[k]]

OutputValue(key) == "<" \o key \o ">"

\* The steps of the block that follows a successful deploy, in the order of
\* the code.
FollowOnSteps(solution_name) ==
    IF solution_name = "messaging"
    THEN <<"update_stack_parameters", "update_index_html",
           "add_messaging_to_solution_demos", "upload_static_website">>
    ELSE <<"update_stack_parameters", "add_streaming_media_to_solution_demos",
           "add_streaming_media_buttons", "upload_static_website">>

HasFollowOns(solution_name, outputs) ==
    \/ solution_name = "messaging" /\ "ApiEndpoint" \in outputs
    \/ solution_name = "streaming_media"

\* cli.calls: the functions main called, in order, each with the block of
\* main that called it and the arguments that tell the calls apart;
\* cli.deployed: the parameters of the solution when
\* deploy_cloudformation_template was called; cli.failed: the checks and
\* calls that failed; cli.exit: the exit status, -1 while main runs.
Running == -1

IdleMain ==
    [pc |-> "idle", args |-> Args(FALSE, "", "", "", FALSE, "", ""),
     config |-> [parameters |-> "missing", s3 |-> "missing"],
     deployed |-> <<>>, outputs |-> {}, step |-> 1, calls |-> <<>>, failed |-> {},
     exit |-> Running]

StartMain(args, config) == [IdleMain EXCEPT !.pc = "start", !.args = args, !.config = config]

MainCall(c, block, fn, arg) ==
    [c EXCEPT !.calls = Append(@, [block |-> block, fn |-> fn, arg |-> arg])]

Failure(block, step) == [block |-> block, step |-> step]

\* sys.exit(1), or an exception nothing catches.
Exit1(c, block, step) ==
    [c EXCEPT !.pc = "done", !.exit = 1, !.failed = @ \cup {Failure(block, step)}]

\* return, or the end of main.
Exit0(c) == [c EXCEPT !.pc = "done", !.exit = 0]

\* A failed step that ends the run.
WarnExiting(c, block, step) == Exit1(c, block, step)

\* print("Warning: ..."): the run goes on.
Warn(c, block, step) == [c EXCEPT !.failed = @ \cup {Failure(block, step)}]

\* The block is left at the first step that fails.
AfterFollowOnAborting(c, ok) ==
    IF ok /\ c.step < Len(FollowOnSteps(c.args.deploy))
    THEN [c EXCEPT !.step = @ + 1]
    ELSE [c EXCEPT !.pc = "after_deploy"]

\* The next step of the block, whatever the outcome of this one.
AfterFollowOn(c, ok) ==
    IF c.step < Len(FollowOnSteps(c.args.deploy))
    THEN [c EXCEPT !.step = @ + 1]
    ELSE [c EXCEPT !.pc = "after_deploy"]

\* The arguments of a step of the block.
FollowOnArg(c, fn) ==
    CASE fn = "update_stack_parameters" ->
             <<c.args.static_website_stack,
               IF c.args.deploy = "messaging" THEN "MessagingStackName"
               ELSE "StreamingMediaStackName",
               c.args.stack_name>>
      [] fn = "update_index_html" -> <<OutputValue("ApiEndpoint")>>
      [] fn = "add_streaming_media_buttons" ->
             IF "HlsEndpointUrl" \in c.outputs THEN <<"hls", OutputValue("HlsEndpointUrl")>>
             ELSE <<>>
      [] fn = "upload_static_website" -> <<S3BucketOfConfig(c.config)>>
      [] OTHER -> <<>>

(* ------------------------------ actions ------------------------------ *)
\* --attach_bucket_policy (lines 233-262).
MainAttachBucketPolicy(getOk, attachOk) ==
    /\ cli.pc = "start"
    /\ cli.args.attach_bucket_policy
    /\ LET s3_bucket == IF cli.args.s3_bucket # "" THEN cli.args.s3_bucket
                        ELSE S3BucketOfConfig(cli.config)
           c == MainCall(cli, "attach", "attach_bucket_policy", <<s3_bucket>>)
       IN  cli' =
             IF cli.args.s3_bucket = "" /\ S3BucketRaises(cli.config)
             THEN Exit1(cli, "attach", "config")
             ELSE IF s3_bucket = "" THEN Exit1(cli, "attach", "s3_bucket")
             ELSE IF cli.args.cloudfront_distribution_id # "" /\ ~getOk
             THEN Exit1(cli, "attach", "get_distribution")
             ELSE IF ~attachOk THEN Exit1(c, "attach", "attach_bucket_policy")
             ELSE Exit0(c)
    /\ UNCHANGED <<site, web, upl, urls, policyVars, deployVars, reportVars>>

\* --deploy: the checks of the options and the parameters (lines 265-305).
MainCheckDeploy ==
    /\ cli.pc = "start"
    /\ ~cli.args.attach_bucket_policy
    /\ cli.args.deploy # ""
    /\ cli' =
         IF cli.args.stack_name = "" THEN Exit1(cli, "deploy", "stack_name")
         ELSE IF cli.args.deploy \in {"messaging", "streaming_media"}
                 /\ cli.args.static_website_stack = ""
         THEN Exit1(cli, "deploy", "static_website_stack")
         ELSE IF cli.args.deploy \in {"messaging", "streaming_media"}
         THEN [cli EXCEPT !.pc = "deploy",
                          !.deployed = SetStaticWebsiteStack(
                                           ExistingParameters(cli.config.parameters),
                                           cli.args.static_website_stack)]
         ELSE [cli EXCEPT !.pc = "deploy",
                          !.deployed = ExistingParameters(cli.config.parameters)]
    /\ UNCHANGED <<site, web, upl, urls, policyVars, deployVars, reportVars>>

\* deploy_cloudformation_template and the test of its status (lines 312-316).
MainDeploy(status, outputs) ==
    /\ cli.pc = "deploy"
    /\ LET c == MainCall(cli, "deploy", "deploy_cloudformation_template",
                         <<cli.args.deploy, cli.args.stack_name>>)
       IN  cli' =
             IF status = "error" THEN Exit1(c, "deploy", "deploy_cloudformation_template")
             ELSE IF HasFollowOns(cli.args.deploy, outputs)
             THEN [c EXCEPT !.pc = "follow_on", !.outputs = outputs, !.step = 1]
             ELSE [c EXCEPT !.pc = "after_deploy", !.outputs = outputs]
    /\ UNCHANGED <<site, web, upl, urls, policyVars, deployVars, reportVars>>

\* One step of the block after a messaging or streaming_media deploy (lines
\* 324-415): the call, and the warning when it reports a failure.  The upload
\* is called when the configuration names a bucket; an s3 section that is
\* null raises inside the block, whose handler prints a warning.
MainFollowOn(ok) ==
    /\ cli.pc = "follow_on"
    /\ LET fn == FollowOnSteps(cli.args.deploy)[cli.step]
           c == MainCall(cli, "follow_on", fn, FollowOnArg(cli, fn))
       IN  cli' =
             IF fn = "upload_static_website" /\ S3BucketRaises(cli.config)
             THEN [Warn(cli, "follow_on", "config") EXCEPT !.pc = "after_deploy"]
             ELSE IF fn = "upload_static_website" /\ S3BucketOfConfig(cli.config) = ""
             THEN [cli EXCEPT !.pc = "after_deploy"]
             ELSE IF fn = "update_stack_parameters" /\ cli.args.static_website_stack = ""
             THEN AfterFollowOn(cli, TRUE)
             ELSE IF ok THEN AfterFollowOn(c, ok)
             ELSE AfterFollowOn(Warn(c, "follow_on", fn), ok)
    /\ UNCHANGED <<site, web, upl, urls, policyVars, deployVars, reportVars>>

\* The end of deploy mode (lines 417-424): without --upload_resume nothing
\* else runs.
MainAfterDeploy ==
    /\ cli.pc = "after_deploy"
    /\ cli' = IF cli.args.upload_resume THEN [cli EXCEPT !.pc = "upload_resume"]
              ELSE Exit0(cli)
    /\ UNCHANGED <<site, web, upl, urls, policyVars, deployVars, reportVars>>

\* --upload_resume (lines 426-445), alone or after a deploy.
MainUploadResume(ok) ==
    /\ \/ cli.pc = "upload_resume"
       \/ /\ cli.pc = "start"
          /\ ~cli.args.attach_bucket_policy
          /\ cli.args.deploy = ""
          /\ cli.args.upload_resume
    /\ LET s3_bucket == IF cli.args.s3_bucket # "" THEN cli.args.s3_bucket
                        ELSE S3BucketOfConfig(cli.config)
           c == MainCall(cli, "upload_resume", "upload_static_website", <<s3_bucket>>)
       IN  cli' =
             IF cli.args.s3_bucket = "" /\ S3BucketRaises(cli.config)
             THEN Exit1(cli, "upload_resume", "config")
             ELSE IF s3_bucket = "" THEN Exit1(cli, "upload_resume", "s3_bucket")
             ELSE IF ~ok THEN Exit1(c, "upload_resume", "upload_static_website")
             ELSE Exit0(c)
    /\ UNCHANGED <<site, web, upl, urls, policyVars, deployVars, reportVars>>

\* The report (lines 447-482): describe_instances failing ends the run, an
\* instance whose details cannot be read is left out, save_report raising
\* ends the run with a traceback.
MainReport(enumOk, detailsOk, saveOk) ==
    /\ cli.pc = "start"
    /\ ~cli.args.attach_bucket_policy
    /\ cli.args.deploy = ""
    /\ ~cli.args.upload_resume
    /\ LET c == IF detailsOk THEN cli ELSE Warn(cli, "report", "get_instance_details")
       IN  cli' = IF ~enumOk THEN Exit1(cli, "report", "describe_instances")
                  ELSE IF ~saveOk THEN Exit1(c, "report", "save_report")
                  ELSE Exit0(c)
    /\ UNCHANGED <<site, web, upl, urls, policyVars, deployVars, reportVars>>

Solutions == {"", "messaging", "streaming_media", "static_website"}

MainArgs ==
    { Args(a, d, n, s, u, b, i) :
        a \in BOOLEAN, d \in Solutions, n \in {"", "my-stack"}, s \in {"", "site-stack"},
        u \in BOOLEAN, b \in {"", "arg-bucket"}, i \in {"", "E123"} }

MainConfigs ==
    [parameters : {"missing", "null", "map", "map_with_stack"},
     s3 : {"missing", "null", "empty", "bucket"}]

MainOutputs == SUBSET {"ApiEndpoint", "HlsEndpointUrl"}

InitMain == \E args \in MainArgs, config \in MainConfigs : cli = StartMain(args, config)

NextMain ==
    \/ \E getOk \in BOOLEAN, attachOk \in BOOLEAN : MainAttachBucketPolicy(getOk, attachOk)
    \/ MainCheckDeploy
    \/ \E status \in {"success", "error"}, outputs \in MainOutputs : MainDeploy(status, outputs)
    \/ \E ok \in BOOLEAN : MainFollowOn(ok)
    \/ MainAfterDeploy
    \/ \E ok \in BOOLEAN : MainUploadResume(ok)
    \/ \E enumOk \in BOOLEAN, detailsOk \in BOOLEAN, saveOk \in BOOLEAN :
           MainReport(enumOk, detailsOk, saveOk)

(***************************************************************************)
(* Cost Reporter: report mode of aws_infra_report.py / aws_resource_manager *)
(* (calculate_costs, generate_report and the loop of main that feeds them) *)
(***************************************************************************)
\* Money is kept in integers: a spot price in units of 0.00001 dollar, an
\* hourly cost in ten-thousandths of a dollar (4 decimal places), a monthly
\* cost in cents (2 decimal places).  None, Python's None, is -1: no price
\* and no cost is negative.
None == -1

HoursPerDay == 24
\* 30.44 days, in hundredths of a day.
DaysPerMonth == 3044

\* round(x, n) on a value num / den, in units of 10^-n: the nearest integer;
\* an exact half goes to the even neighbour.
RoundDiv(num, den) ==
    LET q == num \div den
        r == num % den
    IN  IF 2 * r > den \/ (2 * r = den /\ q % 2 = 1) THEN q + 1 ELSE q

\* hourly = spot_price; round(hourly, 4)
RoundHourly(spot_price) == RoundDiv(spot_price, 10)

\* monthly = hourly * 24 * 30.44; round(monthly, 2)
RoundMonthly(spot_price) ==
    RoundDiv(spot_price * HoursPerDay * DaysPerMonth, 100000)

calculate_costs(spot_price) ==
    IF spot_price = None
    THEN [hourly |-> None, monthly |-> None]
    ELSE [hourly |-> RoundHourly(spot_price), monthly |-> RoundMonthly(spot_price)]

\* `x or 0`
OrZero(x) == IF x = None \/ x = 0 THEN 0 ELSE x

IsRunning(i) == i.State = "running"

\* A summary that leaves no instance out of the cost totals.
CountsTowardCostAlways(i) == TRUE

CountsTowardCost(i) == i.State # "terminated"

\* sum(1 for i in instances_data if i['State'] == 'running')
RECURSIVE CountRunning(_)
CountRunning(data) ==
    IF data = <<>> THEN 0
    ELSE (IF IsRunning(Head(data)) THEN 1 ELSE 0) + CountRunning(Tail(data))

\* sum(i['Costs'][kind] or 0 for i in instances_data if i['State'] != 'terminated')
RECURSIVE SumCosts(_, _)
SumCosts(data, kind) ==
    IF data = <<>> THEN 0
    ELSE (IF CountsTowardCost(Head(data)) THEN OrZero(Head(data).Costs[kind]) ELSE 0)
         + SumCosts(Tail(data), kind)

generate_report(region, instances_data) ==
    [region |-> region,
     instances |-> instances_data,
     summary |-> [total_instances |-> Len(instances_data),
                  running_instances |-> CountRunning(instances_data),
                  total_hourly_cost |-> SumCosts(instances_data, "hourly"),
                  total_monthly_cost |-> SumCosts(instances_data, "monthly")]]

NoReport == [region |-> "", instances |-> <<>>,
             summary |-> [total_instances |-> 0, running_instances |-> 0,
                          total_hourly_cost |-> 0, total_monthly_cost |-> 0]]

(* ------------------------------ inputs ------------------------------- *)
MaxInstances == 3

InstanceStates == {"running", "stopped", "terminated"}

\* 0.1234, 0.035 and 0.12346 dollars per hour, and no price at all.
SpotPrices == {12340, 3500, 12346, None}

(* ------------------------------ actions ------------------------------ *)
\* rep: the report run.  pc is the place in main, instance_ids the number of
\* instances describe_instances listed that are still to be visited,
\* instances_data the records collected, report the generated report, exit
\* the exit status once the process has ended early, fault the call whose
\* failure ended it.
IdleReport == [pc |-> "idle", instance_ids |-> 0, instances_data |-> <<>>,
               report |-> NoReport, exit |-> None, fault |-> ""]

\* response = ec2.describe_instances(); on an error sys.exit(1).
EnumerateInstances(ok, n) ==
    /\ rep.pc = "idle"
    /\ rep' = IF ok
              THEN [rep EXCEPT !.pc = "collect", !.instance_ids = n]
              ELSE [rep EXCEPT !.pc = "exited", !.exit = 1,
                               !.fault = "describe_instances"]
    /\ UNCHANGED <<det, policyVars, deployVars, webVars>>

\* One turn of the loop: get_instance_details succeeded, the record gets
\* SpotPrice and Costs and is appended.
CollectInstance(state, spot_price) ==
    /\ rep.pc = "collect"
    /\ rep.instance_ids > 0
    /\ rep' = [rep EXCEPT !.instance_ids = @ - 1,
                          !.instances_data =
                              Append(@, [State |-> state,
                                         SpotPrice |-> spot_price,
                                         Costs |-> calculate_costs(spot_price)])]
    /\ UNCHANGED <<det, policyVars, deployVars, webVars>>

\* A loop that gives up at the first instance without details.
SkipInstanceAborting ==
    /\ rep.pc = "collect"
    /\ rep.instance_ids > 0
    /\ rep' = [rep EXCEPT !.pc = "exited", !.exit = 1,
                          !.fault = "get_instance_details"]
    /\ UNCHANGED <<det, policyVars, deployVars, webVars>>

\* One turn of the loop: get_instance_details returned None, nothing is
\* appended.
SkipInstance ==
    /\ rep.pc = "collect"
    /\ rep.instance_ids > 0
    /\ rep' = [rep EXCEPT !.instance_ids = @ - 1]
    /\ UNCHANGED <<det, policyVars, deployVars, webVars>>

\* report = generate_report(region, instances_data), saved and displayed.
\* saved: whether save_report could write the file; its exception is caught
\* nowhere and ends the process with a traceback and exit status 1.
GenerateReport(saved) ==
    /\ rep.pc = "collect"
    /\ rep.instance_ids = 0
    /\ LET r == [rep EXCEPT !.report =
                               generate_report(Region, rep.instances_data)]
       IN  rep' = IF saved THEN [r EXCEPT !.pc = "reported"]
                  ELSE [r EXCEPT !.pc = "exited", !.exit = 1,
                                 !.fault = "save_report"]
    /\ UNCHANGED <<det, policyVars, deployVars, webVars>>

(* ------------------------ get_instance_details ------------------------ *)
TagKeys == {"Name", "environment", "organization"}
TagValues == {"x", "y"}

MaxTags == 2

\* The Tags of an instance as describe_instances lists them: Key / Value
\* pairs, no key twice.
InstanceTagLists ==
    UNION {{s \in [1..n -> [Key : TagKeys, Value : TagValues]] :
               Cardinality({s[i].Key : i \in 1..n}) = n} : n \in 0..MaxTags}

\* An instance of the response: with or without a 'Tags' entry.
Instances ==
    {[hasTags |-> FALSE, Tags |-> <<>>]}
        \cup {[hasTags |-> TRUE, Tags |-> t] : t \in InstanceTagLists}

\* A dictionary of tags is a function from its keys to their values.
TagDicts == UNION {[K -> TagValues] : K \in SUBSET TagKeys}

\* config: None, without a 'tags' section, with an empty (null) one, or with
\* a dictionary of default tags.
DetailConfigs ==
    {[kind |-> k, tags |-> <<>>] : k \in {"None", "no_tags", "null_tags"}}
        \cup {[kind |-> "dict", tags |-> t] : t \in TagDicts}

\* {tag['Key']: tag['Value'] for tag in instance['Tags']}
TagsDict(tags) ==
    [k \in {tags[i].Key : i \in 1..Len(tags)} |->
        LET last == CHOOSE i \in 1..Len(tags) :
                        /\ tags[i].Key = k
                        /\ \A j \in (i+1)..Len(tags) : tags[j].Key # k
        IN  tags[last].Value]

\* A merge in which the config default tags win.
MergeDefaultsOverriding(tags, defaults) ==
    [k \in DOMAIN tags \cup DOMAIN defaults |->
        IF k \in DOMAIN defaults THEN defaults[k] ELSE tags[k]]

\* for key, value in config['tags'].items():
\*     if key not in details['Tags']: details['Tags'][key] = value
MergeDefaults(tags, defaults) ==
    [k \in DOMAIN tags \cup DOMAIN defaults |->
        IF k \in DOMAIN tags THEN tags[k] ELSE defaults[k]]

\* What the function returns when an exception was caught.
NoDetails == [ok |-> FALSE, Tags |-> <<>>]

\* describeOk: whether describe_instances answered with the instance.
get_instance_details(describeOk, instance, config) ==
    IF ~describeOk THEN NoDetails
    ELSE LET tags == IF instance.hasTags THEN TagsDict(instance.Tags)
                     ELSE <<>>
         IN  CASE config.kind = "dict" ->
                     [ok |-> TRUE, Tags |-> MergeDefaults(tags, config.tags)]
               [] config.kind = "null_tags" -> NoDetails
               [] OTHER -> [ok |-> TRUE, Tags |-> tags]

\* det: a call of get_instance_details, its arguments and, once it has
\* returned, its result.
DetailsCall(describeOk, instance, config) ==
    [called |-> FALSE, describeOk |-> describeOk, instance |-> instance,
     config |-> config, ret |-> NoDetails]

NoDetailsCall ==
    DetailsCall(FALSE, [hasTags |-> FALSE, Tags |-> <<>>],
                [kind |-> "None", tags |-> <<>>])

GetInstanceDetails ==
    /\ ~det.called
    /\ det' = [det EXCEPT !.called = TRUE,
                          !.ret = get_instance_details(det.describeOk,
                                                       det.instance, det.config)]
    /\ UNCHANGED <<rep, policyVars, deployVars, webVars>>

InitDetails ==
    /\ rep = IdleReport
    /\ \E describeOk \in BOOLEAN, instance \in Instances,
          config \in DetailConfigs :
           det = DetailsCall(describeOk, instance, config)

NextDetails == GetInstanceDetails

InitReporter == rep = IdleReport /\ det = NoDetailsCall

NextReporter ==
    \/ \E ok \in BOOLEAN, n \in 0..MaxInstances : EnumerateInstances(ok, n)
    \/ \E state \in InstanceStates, spot_price \in SpotPrices :
           CollectInstance(state, spot_price)
    \/ SkipInstance
    \/ \E saved \in BOOLEAN : GenerateReport(saved)

(***************************************************************************)
(* Specifications: one per component, the other components at rest         *)
(***************************************************************************)
BucketAtRest ==
    /\ policy = NoPolicy
    /\ polHist = [fresh |-> TRUE, okArns |-> {}]
    /\ lastAttach = NoCall

DeployerAtRest == dep = IdleDeploy /\ usp = IdleParameters

SiteAtRest ==
    /\ site = [dirs |-> {}, index |-> [d \in Dirs |-> NoFile], config |-> Config(NoDir, NoEmail)]
    /\ web = NoWebCall

WebAtRest == SiteAtRest /\ upl = NoUploadCall /\ urls = IdleUrls /\ cli = IdleMain

ReporterAtRest == rep = IdleReport /\ det = NoDetailsCall

InitPolicy == InitBucket /\ DeployerAtRest /\ WebAtRest /\ ReporterAtRest
SpecPolicy == InitPolicy /\ [][NextBucket]_vars

InitDeploy == InitDeployer /\ BucketAtRest /\ WebAtRest /\ ReporterAtRest
SpecDeploy == InitDeploy /\ [][NextDeployer]_vars

InitHtml == InitWeb /\ urls = IdleUrls /\ cli = IdleMain /\ BucketAtRest /\ DeployerAtRest /\ ReporterAtRest
SpecHtml == InitHtml /\ [][NextWeb]_vars

InitStreamingButtons == InitButtons /\ urls = IdleUrls /\ cli = IdleMain /\ BucketAtRest /\ DeployerAtRest /\ ReporterAtRest
SpecButtons == InitStreamingButtons /\ [][NextButtons]_vars

InitReport == InitReporter /\ BucketAtRest /\ DeployerAtRest /\ WebAtRest
SpecReport == InitReport /\ [][NextReporter]_vars

InitUploader ==
    /\ SiteAtRest
    /\ \E dirs \in Layouts, content_dir \in {NoDir, CustomDir}, glob \in Globs :
           upl = UploadCall(dirs, content_dir, glob)

InitUpload == InitUploader /\ urls = IdleUrls /\ cli = IdleMain /\ BucketAtRest /\ DeployerAtRest /\ ReporterAtRest
SpecUpload == InitUpload /\ [][NextUploader]_vars

InitStreamingUrls ==
    InitUrls /\ SiteAtRest /\ upl = NoUploadCall /\ cli = IdleMain /\ BucketAtRest /\ DeployerAtRest /\ ReporterAtRest
SpecUrls == InitStreamingUrls /\ [][NextUrls]_vars

InitCommandLine ==
    InitMain /\ SiteAtRest /\ upl = NoUploadCall /\ urls = IdleUrls /\ BucketAtRest /\ DeployerAtRest /\ ReporterAtRest
SpecMain == InitCommandLine /\ [][NextMain]_vars

InitTags == InitDetails /\ BucketAtRest /\ DeployerAtRest /\ WebAtRest
SpecTags == InitTags /\ [][NextDetails]_vars

(***************************************************************************)
(* Claims about the bucket policy patcher                                  *)
(***************************************************************************)
\* C1: on a bucket that started without a policy and whose policy was always
\* read back as written, after successful calls with one ARN A the policy is
\* one statement with StringEquals AWS:SourceArn = A; after successful calls
\* with k >= 2 distinct ARNs (any order, any repeats) it is one statement
\* without StringEquals whose StringLike list holds each of the k ARNs once.
C1_FreshBucketPolicyShape ==
    (polHist.fresh /\ polHist.okArns # {}) =>
        /\ policy.exists
        /\ Len(policy.Statement) = 1
        /\ LET st == policy.Statement[1]
               k == Cardinality(polHist.okArns)
           IN  /\ IsCloudFrontStatement(st) /\ st.cond
               /\ IF k = 1
                  THEN st.eq.t = "str" /\ polHist.okArns = {st.eq.s}
                       /\ st.like.t = "absent"
                  ELSE st.eq.t = "absent" /\ st.like.t = "list"
                       /\ Len(st.like.l) = k
                       /\ Range(st.like.l) = polHist.okArns

C1_Witness ==
    /\ polHist.fresh
    /\ Cardinality(polHist.okArns) >= 2
    /\ lastAttach.called /\ lastAttach.ret /\ lastAttach.putOk

\* Whether some CloudFront statement of pol covers arn, by StringEquals or as
\* a member of a StringLike list.
Covers(pol, arn) ==
    \E i \in 1..Len(pol.Statement) :
        /\ IsCloudFrontStatement(pol.Statement[i])
        /\ \/ CoveredByStringEquals(pol.Statement[i], arn)
           \/ CoveredByStringLike(pol.Statement[i], arn)

\* C2: a call with an ARN the bucket's CloudFront statement already covers
\* returns True, calls no put_bucket_policy and leaves the policy unchanged.
C2_CoveredArnIsNoOp ==
    [][ (lastAttach'.arn # NoArn /\ Covers(policy, lastAttach'.arn)) =>
            /\ lastAttach'.ret
            /\ ~lastAttach'.putCalled
            /\ policy' = policy ]_vars

\* The source ARNs a statement's StringEquals / StringLike conditions let
\* through (the conditions of one statement must all hold).
AllowedArns(st) ==
    {a \in Arns :
        /\ st.eq.t = "str" => a = st.eq.s
        /\ st.like.t = "str" => a = st.like.s
        /\ st.like.t = "list" => a \in Range(st.like.l)}

HasArnCondition(st) == st.cond /\ (st.eq.t # "absent" \/ st.like.t # "absent")

\* C3: when the bucket has a policy, a call that writes a policy writes every
\* statement other than the matched CloudFront statement back unchanged, and
\* the matched statement still allows every ARN it allowed before.
C3_ExistingPermissionsPreserved ==
    [][ (policy.exists /\ lastAttach'.putOk) =>
            LET idx == ScanStatements(policy.Statement, lastAttach'.arn, 1, 0).index
            IN  /\ Len(policy'.Statement) >= Len(policy.Statement)
                /\ \A i \in 1..Len(policy.Statement) :
                      IF i # idx
                      THEN policy'.Statement[i] = policy.Statement[i]
                      ELSE HasArnCondition(policy.Statement[i]) =>
                               AllowedArns(policy.Statement[i])
                                   \subseteq AllowedArns(policy'.Statement[i]) ]_vars

\* C4: when get_bucket_policy fails with an error other than
\* NoSuchBucketPolicy the call returns False and makes no put_bucket_policy
\* call.
C4_UnreadablePolicyNotReplaced ==
    (lastAttach.getCalled /\ ~lastAttach.getOk) =>
        (~lastAttach.ret /\ ~lastAttach.putCalled)

(***************************************************************************)
(* Claims about the stack deployer                                         *)
(***************************************************************************)
KnownSolutionAndTemplate ==
    dep.message \notin {"Solution not found in configuration.",
                        "Template file not found."}

DryRunCall == dep.pc # "idle" /\ dep.impl = "deploy_function" /\ dep.dry

NullSectionRead ==
    \/ dep.tagsKind = "null"
    \/ dep.messagingKind = "null" /\ dep.solution = "messaging"

HasAwsRegionEntry(params) ==
    \E i \in 1..Len(params) : params[i] = Param("AwsRegion", Region)

ParametersBuilt ==
    dep.built /\ (dep.pc \in ParamsLivePcs \/ dep.status = "dry_run")

\* C6: the parameter list holds an AwsRegion entry with value = region if and
\* only if the template declares a parameter named AwsRegion, in both
\* implementations, with or without dry_run.
C6_AwsRegionIffDeclared ==
    ParametersBuilt => (HasAwsRegionEntry(dep.params) <=> dep.declared)

(***************************************************************************)
(* Claims about the index patcher                                          *)
(***************************************************************************)
RepeatedUpdate == web.op = "update_index_html" /\ web.repeat

PlaceholderSymbols == Range(ApiPlaceholder) \cup Range(EmailPlaceholder)

\* A text that cannot complete or form a placeholder: it holds neither "${"
\* nor "}", and holds something that is no part of a placeholder.
Inert(text) ==
    /\ "${" \notin Range(text)
    /\ "}" \notin Range(text)
    /\ Range(text) \ PlaceholderSymbols # {}

C8_MessagingAddedExactlyOnce ==
    (web.op = "add_messaging_to_solution_demos" /\ web.fresh /\ web.ioOk) =>
        /\ web.ret = "True"
        /\ Count(site.index[web.dir].text, Marker) = 1

(***************************************************************************)
(* Claims about the cost reporter                                          *)
(***************************************************************************)
\* The sum of f over the finite set S.
RECURSIVE SumOver(_, _)
SumOver(S, f) ==
    IF S = {} THEN 0
    ELSE LET x == CHOOSE y \in S : TRUE IN f[x] + SumOver(S \ {x}, f)

\* C9: in the report, total_instances counts every record, running_instances
\* the records in state 'running', and the two cost totals are the sums of
\* the cost over the records that are not 'terminated', a null cost being 0.
C9_ReportSummary ==
    rep.pc = "reported" =>
        LET data == rep.report.instances
            all == 1..Len(data)
            billed == {i \in all : data[i].State # "terminated"}
            cost(kind) == [i \in all |-> IF data[i].Costs[kind] = None
                                         THEN 0 ELSE data[i].Costs[kind]]
            summary == rep.report.summary
        IN  /\ data = rep.instances_data
            /\ summary.total_instances = Cardinality(all)
            /\ summary.running_instances =
                   Cardinality({i \in all : data[i].State = "running"})
            /\ summary.total_hourly_cost = SumOver(billed, cost("hourly"))
            /\ summary.total_monthly_cost = SumOver(billed, cost("monthly"))

C9_Witness ==
    /\ rep.pc = "reported"
    /\ \E i, j, k \in 1..Len(rep.instances_data) :
          /\ rep.instances_data[i].State = "terminated"
          /\ rep.instances_data[i].Costs.hourly # None
          /\ rep.instances_data[j].State = "running"
          /\ rep.instances_data[j].Costs.monthly # None
          /\ rep.instances_data[k].State = "stopped"
          /\ rep.instances_data[k].Costs.hourly = None

\* C10: calculate_costs(0.1234) gives hourly 0.1234 and monthly 90.06.
C10_CostsOfExamplePrice ==
    \A i \in 1..Len(rep.instances_data) :
        rep.instances_data[i].SpotPrice = 12340 =>
            /\ rep.instances_data[i].Costs.hourly = 1234
            /\ rep.instances_data[i].Costs.monthly = 9006

(***************************************************************************)
(* Claims about the create / update decision and the paths after it       *)
(***************************************************************************)
Issued(api) == \E i \in 1..Len(dep.calls) : dep.calls[i].api = api

\* C11: in a call that is no dry run, create_stack is issued only if
\* describe_stacks reported that the stack does not exist, update_stack only
\* if describe_stacks succeeded, and never both.
C11_CreateOrUpdateByDescribe ==
    /\ Issued("create_stack") => dep.described = DoesNotExist
    /\ Issued("update_stack") => dep.described = "ok"
    /\ ~(Issued("create_stack") /\ Issued("update_stack"))

NoUpdatesUnforced == dep.updated = NoUpdates /\ ~dep.force

NoStackChangeIssued ==
    /\ ~Issued("create_stack")
    /\ ~Issued("create_change_set")
    /\ ~Issued("execute_change_set")
    /\ ~Issued("wait")

OutputsRead ==
    \E i \in 1..Len(dep.calls) : dep.calls[i] = Call("describe_stacks", "outputs")

\* C12 as stated: when update_stack fails with 'No updates are to be
\* performed' and force_update is False, the call returns status 'success'
\* with the outputs describe_stacks reports and issues no create_stack,
\* create_change_set, execute_change_set or waiter call.
C12_NoUpdatesIsSuccess ==
    NoUpdatesUnforced =>
        /\ NoStackChangeIssued
        /\ dep.pc = "done" => (dep.status = "success" /\ OutputsRead)

\* C12 amended: on that path no create_stack, create_change_set,
\* execute_change_set or waiter call is issued, and the call returns status
\* 'success' with the outputs read by describe_stacks unless that
\* describe_stacks call, the parsing of the template or get_distribution
\* raises: then it returns status 'error'.
C12_NoUpdatesIsSuccessUnlessRaised ==
    NoUpdatesUnforced =>
        /\ NoStackChangeIssued
        /\ dep.pc = "done" =>
              IF dep.fault = ""
              THEN /\ dep.status = "success" /\ OutputsRead
                   /\ dep.message = "No updates were performed on the stack."
              ELSE /\ dep.status = "error"
                   /\ dep.fault \in {"describe_stacks", "load_cloudformation_yaml",
                                     "get_distribution"}

C12_Witness ==
    /\ NoUpdatesUnforced /\ dep.pc = "done" /\ dep.status = "success"
    /\ dep.outputs # {} /\ Issued("upload_static_website")

ForcedNoUpdates == dep.updated = NoUpdates /\ dep.force

\* The calls issued after describe_stacks and update_stack.
CallsAfterUpdate == SubSeq(dep.calls, 3, Len(dep.calls))

ChangeSetSequence ==
    <<Call("create_change_set", ""),
      Call("wait", "change_set_create_complete"),
      Call("execute_change_set", ""),
      Call("wait", "stack_update_complete,Delay=30,MaxAttempts=120")>>

\* The change-set calls come in the order of ChangeSetSequence, none left out
\* before a later one, and all four before a success of the update.
ChangeSetOrder ==
    /\ \A i \in 1..Len(ChangeSetSequence) :
          (i <= Len(CallsAfterUpdate) /\ (i <= 2 \/ dep.changeSetWait = "ok"))
              => CallsAfterUpdate[i] = ChangeSetSequence[i]
    /\ (dep.pc = "done" /\ dep.status = "success" /\ dep.path = "main")
           => Len(CallsAfterUpdate) > Len(ChangeSetSequence)

\* C13 as stated: with force_update, 'No updates are to be performed' is
\* followed by create_change_set, the wait for change_set_create_complete,
\* execute_change_set and the wait for stack_update_complete, in that order;
\* if the change-set wait fails, execute_change_set is never called and the
\* result is status 'success' with the stack's existing outputs.
C13_ForcedUpdateByChangeSet ==
    ForcedNoUpdates =>
        /\ ChangeSetOrder
        /\ dep.changeSetWait \in {"WaiterError", "Exception"} =>
              /\ ~Issued("execute_change_set")
              /\ dep.pc = "done" => (dep.status = "success" /\ OutputsRead)

\* C13 amended: the order is as stated; if the change-set wait fails with a
\* WaiterError, execute_change_set is never called and the result is status
\* 'success' with the outputs read by describe_stacks unless that call, the
\* parsing of the template or get_distribution raises; if the wait fails with
\* any other exception the result is status 'error'.
C13_ForcedUpdateUnlessRaised ==
    ForcedNoUpdates =>
        /\ ChangeSetOrder
        /\ dep.changeSetWait \in {"WaiterError", "Exception"} =>
              /\ ~Issued("execute_change_set")
              /\ ~Issued("create_stack")
              /\ dep.pc = "done" =>
                    IF dep.fault = ""
                    THEN /\ dep.changeSetWait = "WaiterError"
                         /\ dep.status = "success" /\ OutputsRead
                         /\ dep.message = "No updates were performed on the stack."
                    ELSE /\ dep.status = "error"
                         /\ dep.fault \in
                              IF dep.changeSetWait = "Exception"
                              THEN {"change_set_create_complete"}
                              ELSE {"describe_stacks", "load_cloudformation_yaml",
                                    "get_distribution"}

C13_Witness ==
    /\ ForcedNoUpdates /\ dep.changeSetWait = "WaiterError"
    /\ dep.pc = "done" /\ dep.status = "success"
    /\ Issued("upload_static_website")

StackChanging == {"create_stack", "update_stack", "execute_change_set"}

ExtendedWait(operation) ==
    Call("wait", "stack_" \o operation \o "_complete,Delay=30,MaxAttempts=120")

\* The place in calls of the last create_stack, update_stack or
\* execute_change_set.
LastStackChange(calls) ==
    CHOOSE i \in 1..Len(calls) :
        /\ calls[i].api \in StackChanging
        /\ \A j \in (i+1)..Len(calls) : calls[j].api \notin StackChanging

\* C14: once create_stack, update_stack or execute_change_set has succeeded,
\* the next thing deploy_function does is wait on stack_<operation>_complete
\* with Delay=30 and MaxAttempts=120, so that wait precedes the reading of the
\* outputs and every follow-on action, and the function does not return
\* success without it; update_stack_parameters makes the same wait right after
\* a successful update_stack and before it returns success.
C14_ExtendedWaitBeforeOutputs ==
    /\ (dep.impl = "deploy_function" /\ dep.operation # "") =>
          LET k == LastStackChange(dep.calls)
          IN  /\ Len(dep.calls) > k => dep.calls[k + 1] = ExtendedWait(dep.operation)
              /\ (dep.pc = "done" /\ dep.status = "success") => Len(dep.calls) > k
              /\ \A i \in 1..k : /\ dep.calls[i] # Call("describe_stacks", "outputs")
                                 /\ dep.calls[i].api \notin
                                      {"export_deployed_template", "get_distribution",
                                       "attach_bucket_policy", "upload_static_website",
                                       "upload_vod_content"}
    /\ usp.updated = "ok" =>
          /\ Len(usp.calls) > 3 => usp.calls[4] = ExtendedWait("update")
          /\ (usp.pc = "done" /\ usp.status = "success") => Len(usp.calls) = 4

C14_Witness ==
    /\ dep.impl = "deploy_function" /\ dep.operation = "create"
    /\ dep.pc = "done" /\ dep.status = "success"
    /\ ExtendedWait("create") \in {dep.calls[i] : i \in 1..Len(dep.calls)}
    /\ Issued("upload_static_website")

\* C15: deploy_cloudformation_template always returns a dictionary: a call
\* with an unknown solution or a missing template file ends at once with
\* status 'error' and no AWS call made, and an exception that an AWS call, a
\* waiter or a follow-on step lets out ends the call with status 'error' and
\* message str(e).
C15_NeverRaises ==
    /\ dep.pc = "done" => dep.status \in {"success", "error", "dry_run"}
    /\ dep.fault # "" =>
          dep.pc = "done" /\ dep.status = "error" /\ dep.message = "str(e)"
    /\ (dep.pc # "idle" /\ (~dep.known \/ ~dep.tplExists)) =>
          /\ dep.pc = "done" /\ dep.status = "error" /\ dep.calls = <<>>
          /\ dep.message = IF ~dep.known
                           THEN "Solution not found in configuration."
                           ELSE "Template file not found."

C15_Witness ==
    /\ dep.pc = "done" /\ dep.status = "error" /\ dep.message = "str(e)"
    /\ dep.known /\ dep.tplExists
    /\ dep.fault = "stack_complete" /\ Issued("create_stack")

Uploads ==
    Cardinality({i \in 1..Len(dep.calls) :
                    dep.calls[i].api = "upload_static_website"})

\* C16: for solution 'static_website' with S3BucketName among the stack
\* outputs, a call of deploy_function's deploy_cloudformation_template that
\* returns 'success' has called upload_static_website exactly once, whichever
\* way it went (created, updated, no updates, change set without changes), and
\* once the upload has been called the result is 'success' whether the upload
\* succeeded or not.
C16_UploadExactlyOnce ==
    (/\ dep.impl = "deploy_function" /\ dep.solution = "static_website"
     /\ "S3BucketName" \in dep.outputs) =>
        /\ Uploads <= 1
        /\ (dep.pc = "done" /\ dep.status = "success") => Uploads = 1
        /\ (dep.pc = "done" /\ Uploads = 1) => dep.status = "success"

C16_Witness ==
    /\ dep.impl = "deploy_function" /\ dep.solution = "static_website"
    /\ dep.changeSetWait = "WaiterError"
    /\ dep.pc = "done" /\ dep.status = "success" /\ Uploads = 1
    /\ "upload_static_website" \in dep.failed

\* C17: a call with export_template set that returns status 'success' has
\* invoked export_deployed_template, also when no updates were performed.
C17_ExportOnSuccess ==
    (dep.export /\ dep.pc = "done" /\ dep.status = "success") =>
        Issued("export_deployed_template")

(***************************************************************************)
(* Claims about update_stack_parameters                                    *)
(***************************************************************************)
ParametersSubmitted ==
    \E i \in 1..Len(usp.calls) : usp.calls[i].api = "update_stack"

Given(items, key, value) ==
    \E j \in 1..Len(items) :
        items[j].ParameterKey = key /\ items[j].ParameterValue = value

\* C18: the list handed to update_stack holds every current parameter once,
\* in the stack's order, with the value of new_parameters if the key is given
\* there and its current value otherwise, followed by the keys of
\* new_parameters that are not on the stack, once each; no key appears twice
\* and no current parameter is dropped.
C18_ParametersMerged ==
    ParametersSubmitted =>
        LET cur == usp.current
            new == usp.new_parameters
            sub == usp.submitted
        IN  /\ Len(sub) = Len(cur) + Cardinality(KeysOf(new) \ KeysOf(cur))
            /\ Cardinality(KeysOf(sub)) = Len(sub)
            /\ KeysOf(sub) = KeysOf(cur) \cup KeysOf(new)
            /\ \A i \in 1..Len(sub) :
                  IF i <= Len(cur)
                  THEN /\ sub[i].ParameterKey = cur[i].ParameterKey
                       /\ IF sub[i].ParameterKey \in KeysOf(new)
                          THEN Given(new, sub[i].ParameterKey,
                                     sub[i].ParameterValue)
                          ELSE sub[i].ParameterValue = cur[i].ParameterValue
                  ELSE /\ sub[i].ParameterKey \notin KeysOf(cur)
                       /\ Given(new, sub[i].ParameterKey, sub[i].ParameterValue)

\* A current parameter is overridden, another kept, and a new one added.
C18_Witness ==
    /\ ParametersSubmitted
    /\ usp.current =
          <<[ParameterKey |-> "InstanceType", ParameterValue |-> "a"],
            [ParameterKey |-> "KeyName", ParameterValue |-> "a"]>>
    /\ usp.new_parameters =
          <<[ParameterKey |-> "Email", ParameterValue |-> "b"],
            [ParameterKey |-> "InstanceType", ParameterValue |-> "b"]>>
    /\ usp.submitted =
          <<[ParameterKey |-> "InstanceType", ParameterValue |-> "b"],
            [ParameterKey |-> "KeyName", ParameterValue |-> "a"],
            [ParameterKey |-> "Email", ParameterValue |-> "b"]>>

(***************************************************************************)
(* Claims about the instance report                                        *)
(***************************************************************************)
OnInstance(key, value) ==
    /\ det.instance.hasTags
    /\ \E i \in 1..Len(det.instance.Tags) :
          det.instance.Tags[i] = [Key |-> key, Value |-> value]

InstanceKeys ==
    IF det.instance.hasTags
    THEN {det.instance.Tags[i].Key : i \in 1..Len(det.instance.Tags)}
    ELSE {}

\* C19: in the details returned for a config with default tags, every tag of
\* the instance has its instance value, every default tag whose key is not on
\* the instance is added with the config value, nothing else is added, and an
\* instance without tags gets exactly the default tags.
C19_InstanceTagsTakePrecedence ==
    (det.called /\ det.ret.ok /\ det.config.kind = "dict") =>
        LET Tags == det.ret.Tags
            defaults == det.config.tags
        IN  /\ DOMAIN Tags = InstanceKeys \cup DOMAIN defaults
            /\ \A k \in InstanceKeys : OnInstance(k, Tags[k])
            /\ \A k \in DOMAIN defaults \ InstanceKeys : Tags[k] = defaults[k]
            /\ InstanceKeys = {} => Tags = defaults

\* An instance tag and a default tag of the same key with different values,
\* together with a default tag that the instance does not have.
C19_Witness ==
    /\ det.called /\ det.ret.ok /\ det.config.kind = "dict"
    /\ OnInstance("environment", "x")
    /\ "environment" \in DOMAIN det.config.tags
    /\ det.config.tags["environment"] = "y"
    /\ "organization" \in DOMAIN det.config.tags \ InstanceKeys
    /\ det.ret.Tags["environment"] = "x"

NoCosts == [hourly |-> None, monthly |-> None]

\* What the loop does with an instance: one without details is left out and
\* the scan goes on; one without a spot price is appended with SpotPrice and
\* both costs null.
ScanTolerant ==
    /\ [][SkipInstance =>
             /\ rep'.pc = "collect" /\ rep'.exit = None
             /\ rep'.instances_data = rep.instances_data]_vars
    /\ [][\A state \in InstanceStates :
             CollectInstance(state, None) =>
                 /\ rep'.pc = "collect" /\ rep'.exit = None
                 /\ rep'.instances_data =
                        Append(rep.instances_data,
                               [State |-> state, SpotPrice |-> None,
                                Costs |-> NoCosts])]_vars
    /\ [](rep.pc = "reported" => rep.report.instances = rep.instances_data)

\* C20 as stated: an instance whose details cannot be read is left out and
\* the scan continues; an instance without a spot price is in the report with
\* SpotPrice, hourly and monthly cost null; the process ends with exit status
\* 1 only when the initial enumeration failed.
C20_OnlyEnumerationIsFatal ==
    /\ ScanTolerant
    /\ [](rep.exit = 1 => rep.fault = "describe_instances")

\* C20 amended: as above, but the process ends with exit status 1 when the
\* initial enumeration failed (sys.exit(1)) or when save_report raised.
C20_EnumerationOrSaveIsFatal ==
    /\ ScanTolerant
    /\ [](rep.exit = 1 => rep.fault \in {"describe_instances", "save_report"})
    /\ [](rep.fault = "describe_instances" => rep.instances_data = <<>>)

\* A report written with an instance that has no price.
C20_Witness ==
    /\ rep.pc = "reported"
    /\ Len(rep.report.instances) = 1
    /\ rep.report.instances[1].SpotPrice = None
    /\ rep.report.instances[1].Costs = NoCosts
    /\ rep.report.summary.total_instances = 1

(***************************************************************************)
(* Claims about the follow-on actions of one deployment                    *)
(***************************************************************************)
Invocations(api) ==
    Cardinality({i \in 1..Len(dep.calls) : dep.calls[i].api = api})

\* C30: in one call of deploy_function's deploy_cloudformation_template each
\* of export_deployed_template, attach_bucket_policy, upload_static_website
\* and upload_vod_content is invoked at most once, whatever the solution.
C30_FollowOnsAtMostOnce ==
    dep.impl = "deploy_function" =>
        \A api \in {"export_deployed_template", "attach_bucket_policy",
                    "upload_static_website", "upload_vod_content"} :
            Invocations(api) <= 1

(***************************************************************************)
(* Claims about the source directory and the endpoint in index.html        *)
(***************************************************************************)
ConfiguredDirExists ==
    site.config.content_dir # NoDir /\ site.config.content_dir \in site.dirs

\* C25: update_index_html works in the config's content_dir if that is an
\* existing directory, whatever the state of the other two directories; else
\* in iac/static_website/content if it exists, else in iac/static_website.
C25_SourceDirectoryOrder ==
    web.op = "update_index_html" =>
        IF ConfiguredDirExists THEN web.dir = site.config.content_dir
        ELSE IF ContentSubdir \in site.dirs THEN web.dir = ContentSubdir
        ELSE RootDir \in site.dirs => web.dir = RootDir

\* Every contact link of the text points to the endpoint e.
RefersTo(text, e) ==
    \A i \in 1..Len(text) :
        text[i] = ContactLink[1] =>
            /\ i + Len(e) + 1 <= Len(text)
            /\ SubSeq(text, i + 1, i + Len(e) + 1) = e \o <<"/contact\">">>

\* C27: after update_index_html(e, config) has returned True, index.html holds
\* no '${ApiEndpoint}' placeholder and its contact links point to e, also
\* when an earlier run had put another endpoint into the file.
C27_EndpointIsTheOneGiven ==
    (web.op = "update_index_html" /\ web.ret = "True") =>
        /\ ~IsInfix(ApiPlaceholder, site.index[web.dir].text)
        /\ RefersTo(site.index[web.dir].text, web.api_endpoint)

(***************************************************************************)
(* Claims about the distribution attach_bucket_policy finds by itself      *)
(***************************************************************************)
\* The distribution has the bucket itself as an origin.
OriginIsBucket(d, bucket) ==
    \E k \in 1..Len(d.Origins) : d.Origins[k] = OriginDomain(bucket)

DistributionsOfBucket ==
    {i \in 1..Len(lastAttach.dists) :
        OriginIsBucket(lastAttach.dists[i], BucketName)}

\* C26: called without an ARN, attach_bucket_policy uses the ARN of a
\* distribution one of whose origins is this bucket; if there is no such
\* distribution it returns False without reading or writing a bucket policy.
C26_ArnOfDistributionOfBucket ==
    (lastAttach.called /\ lastAttach.arnArg = NoArn) =>
        /\ lastAttach.arn # NoArn =>
              \E i \in DistributionsOfBucket :
                  lastAttach.dists[i].ARN = lastAttach.arn
        /\ DistributionsOfBucket = {} =>
              /\ ~lastAttach.ret
              /\ ~lastAttach.getCalled /\ ~lastAttach.putCalled

(***************************************************************************)
(* Claims about upload_static_website                                      *)
(***************************************************************************)
EligibleSuffixes == {".css", ".jpg", ".jpeg", ".png", ".gif", ".svg", ".ico"}

\* The rule of the claim, on the name and the extension of the entry.
Eligible(e) ==
    e.isFile /\ (NameOf(e) = "index.html" \/ Lower(e.suffix) \in EligibleSuffixes)

PutsFor(e) ==
    Cardinality({k \in 1..Len(upl.puts) : upl.puts[k].Key = e.rel \o NameOf(e)})

\* C23: every put_object is for an eligible file, no file is put twice, and a
\* call that returns True has issued one put_object for each eligible file
\* and none for any other entry.
C23_OnlyAllowListedFilesUploaded ==
    /\ \A k \in 1..Len(upl.puts) :
          \E e \in Range(upl.glob) :
              Eligible(e) /\ upl.puts[k].Key = e.rel \o NameOf(e)
    /\ \A e \in Range(upl.glob) : PutsFor(e) <= 1
    /\ upl.ret = "True" =>
          \A e \in Range(upl.glob) :
              PutsFor(e) = IF Eligible(e) THEN 1 ELSE 0

C23_Witness ==
    /\ upl.pc = "done" /\ upl.ret = "True"
    /\ upl.glob = <<Entry("", "other", ".html", TRUE),
                    Entry("", "photo", ".JPG", TRUE)>>
    /\ Len(upl.puts) = 1 /\ upl.puts[1].Key = "photo.JPG"

\* C24: each uploaded file is stored under 'static_website/' followed by its
\* path relative to the source directory.
C24_KeyUnderStaticWebsite ==
    \A k \in 1..Len(upl.puts) :
        \E e \in Range(upl.glob) :
            upl.puts[k].Key = "static_website/" \o e.rel \o NameOf(e)


\* C28: when index.html already holds the streaming-buttons block that
\* add_streaming_media_buttons inserted, a further call that returns True
\* leaves the endpoints it was given in the file's streamingEndpoints object
\* and adds no further block.
StoresEndpoints(text, d) ==
    \A key \in DOMAIN d : \A i \in 1..Len(text) - 1 :
        text[i] = JsMember(key) => text[i + 1] = d[key]

C28_SecondCallUpdatesEndpoints ==
    (web.op = "add_streaming_media_buttons" /\ web.repeat /\ web.ret = "True") =>
        /\ Count(site.index[web.dir].text, BlockId) = web.blocks
        /\ StoresEndpoints(site.index[web.dir].text, web.streaming_endpoints)

\* The second conjunct alone fails; the first one holds.
C28_NoSecondBlock ==
    (web.op = "add_streaming_media_buttons" /\ web.repeat /\ web.ret = "True") =>
        Count(site.index[web.dir].text, BlockId) = web.blocks

\* C29: a call of update_website_streaming_urls that returns status
\* 'success' for a stack whose outputs contain CloudFrontDistributionId has
\* issued create_invalidation for '/index.html' after the put_object of
\* index.html.
InvalidatedAfterUpload(calls) ==
    \E i, j \in 1..Len(calls) :
        /\ i < j
        /\ calls[i] = [api |-> "put_object", arg |-> "index.html"]
        /\ calls[j] = [api |-> "create_invalidation", arg |-> "/index.html"]

C29_InvalidationBeforeSuccess ==
    (urls.status = "success" /\ "CloudFrontDistributionId" \in urls.outputs) =>
        InvalidatedAfterUpload(urls.calls)

\* C21 as stated: main ends with status 1 exactly when some check or call of
\* the run failed.
C21_ExitOneIffAnyFailure ==
    cli.pc = "done" => (cli.exit = 1 <=> cli.failed # {})

\* C21: main ends with status 1 exactly when a check of the options, the
\* bucket lookup, get_distribution, attach_bucket_policy,
\* deploy_cloudformation_template, the upload of --upload_resume,
\* describe_instances or save_report failed; a failure in the block after a
\* messaging or streaming_media deploy, or of one instance's details, is
\* printed and leaves the status alone.
Fatal(f) ==
    \/ f.block \in {"attach", "deploy", "upload_resume"}
    \/ f.block = "report" /\ f.step # "get_instance_details"

C21_ExitOneIffFatalFailure ==
    /\ cli.pc = "done" => (cli.exit = 1 <=> \E f \in cli.failed : Fatal(f))
    /\ cli.pc # "done" => (cli.exit = Running /\ \A f \in cli.failed : ~Fatal(f))

C21_Witness ==
    /\ cli.pc = "done"
    /\ cli.exit = 0
    /\ Failure("follow_on", "update_stack_parameters") \in cli.failed
    /\ Failure("follow_on", "upload_static_website") \in cli.failed

\* C22: in a run with --deploy messaging and --static_website_stack S (and
\* without --attach_bucket_policy, which main serves instead of a deploy),
\* deploy_cloudformation_template is called with StaticWebsiteStackName = S
\* in the messaging parameters, and once the block after a successful deploy
\* with an ApiEndpoint output is over, the calls it made are
\* update_stack_parameters(S, {'MessagingStackName': stack_name}),
\* update_index_html(ApiEndpoint), add_messaging_to_solution_demos and, when
\* the configuration names a bucket, upload_static_website(bucket), once
\* each, in this order, after the deploy, whichever of them failed.
\* (An upload that --upload_resume asks for is made by upload mode, after
\* the block.)
IsFollowOn(call) == call.block = "follow_on"

MessagingFollowOns ==
    << [block |-> "follow_on", fn |-> "update_stack_parameters",
        arg |-> <<cli.args.static_website_stack, "MessagingStackName", cli.args.stack_name>>],
       [block |-> "follow_on", fn |-> "update_index_html",
        arg |-> <<OutputValue("ApiEndpoint")>>],
       [block |-> "follow_on", fn |-> "add_messaging_to_solution_demos", arg |-> <<>>] >>
    \o IF cli.config.s3 = "bucket"
       THEN << [block |-> "follow_on", fn |-> "upload_static_website",
                arg |-> <<ConfiguredBucket>>] >>
       ELSE <<>>

C22_MessagingFollowOnsInOrder ==
    (~cli.args.attach_bucket_policy /\ cli.args.deploy = "messaging"
        /\ cli.args.static_website_stack # "") =>
        /\ cli.calls # <<>> =>
              /\ cli.calls[1].fn = "deploy_cloudformation_template"
              /\ "StaticWebsiteStackName" \in DOMAIN cli.deployed
              /\ cli.deployed["StaticWebsiteStackName"] = cli.args.static_website_stack
        /\ \A i \in 2..Len(cli.calls) : cli.calls[i].fn # "deploy_cloudformation_template"
        /\ (cli.pc \in {"after_deploy", "upload_resume", "done"} /\ "ApiEndpoint" \in cli.outputs)
              => SelectSeq(cli.calls, IsFollowOn) = MessagingFollowOns

C22_Witness ==
    /\ cli.pc = "done"
    /\ cli.exit = 0
    /\ cli.args.deploy = "messaging"
    /\ cli.config.parameters = "null"
    /\ cli.failed = {Failure("follow_on", "update_stack_parameters"),
                     Failure("follow_on", "update_index_html")}
    /\ Len(cli.calls) = 5
    /\ cli.calls[5].fn = "upload_static_website"
=============================================================================
